---------------------------- MODULE Spec2Model ----------------------------
(***************************************************************************)
(* A model of the rust-iptables crate (src/src/lib.rs, src/src/error.rs):  *)
(* the tokenizer split_quoted, the capability detection of new(), the      *)
(* process invoker run() with its file lock, and the rule and chain        *)
(* operations built on run().                                              *)
(*                                                                         *)
(* Text is modelled character by character: a string is a sequence of      *)
(* one-character strings, so that tokenizing, quoting and substring search *)
(* are computed as the code computes them.                                 *)
(***************************************************************************)
EXTENDS Integers, Sequences, FiniteSets, TLC

VARIABLES
    ver,        \* the version query's outcome that new() reads
    detected,   \* what new() returned for ver ("none" before the call)
    handle,     \* each caller's IPTables value: [has_check, has_wait]
    fw,         \* the rule engine's state: per table, its chains in order
    open,       \* the callers whose run() holds the lock file open
    lock,       \* the callers whose open lock file holds the exclusive flock
    cs,         \* each caller's position in its operation and in run()
    mon,        \* observer: what has happened to chain CH1 since its creation
    budget,     \* observer: calls and environment failures still allowed
    text,       \* the rule string given to split_quoted
    tokens      \* what split_quoted returned for text (not called before)

pureVars == <<ver, detected, text, tokens>>
opVars == <<handle, fw, open, lock, cs, mon, budget>>
vars == <<ver, detected, handle, fw, open, lock, cs, mon, budget, text, tokens>>

---------------------------------------------------------------------------
(* Text helpers                                                            *)

DQ == "\""
SQ == "'"
SP == " "
NL == "\n"

RECURSIVE Join(_, _)
\* [a, b, c].join(sep) on strings
Join(parts, sep) ==
    IF Len(parts) = 0 THEN <<>>
    ELSE IF Len(parts) = 1 THEN parts[1]
    ELSE parts[1] \o sep \o Join(Tail(parts), sep)

RECURSIVE Split(_, _)
\* str::split(sep) for a one-character separator: the pieces between the
\* separators, empty pieces included
Split(s, sep) ==
    LET hits == {i \in 1..Len(s) : s[i] = sep}
    IN  IF hits = {} THEN <<s>>
        ELSE LET i == CHOOSE k \in hits : \A m \in hits : k <= m
             IN  <<SubSeq(s, 1, i - 1)>> \o Split(SubSeq(s, i + 1, Len(s)), sep)

RECURSIVE Trim(_)
\* str::trim(): without the white space at both ends
Trim(s) ==
    IF Len(s) > 0 /\ s[1] \in {SP, NL} THEN Trim(Tail(s))
    ELSE IF Len(s) > 0 /\ s[Len(s)] \in {SP, NL} THEN Trim(SubSeq(s, 1, Len(s) - 1))
    ELSE s

\* str::replace(ch, ""): without every occurrence of ch
Remove(s, ch) == SelectSeq(s, LAMBDA x : x # ch)

\* str::contains(needle)
Contains(hay, needle) ==
    \E i \in 0..(Len(hay) - Len(needle)) :
        \A k \in 1..Len(needle) : hay[i + k] = needle[k]

---------------------------------------------------------------------------
(* split_quoted: RE_SPLIT = ["'].+?["']|[^ ]+ , find_iter, trim_matches    *)

IsQuote(ch) == ch \in {DQ, SQ}

\* First alternative at position i: a quote, one or more characters other
\* than a line break, matched lazily, and a quote.  The end of the match, or
\* 0 when the alternative does not match at i.
QuotedEnd(s, i) ==
    LET ends == {j \in (i + 2)..Len(s) :
                    /\ IsQuote(s[j])
                    /\ \A k \in (i + 1)..(j - 1) : s[k] # NL}
    IN  IF i <= Len(s) /\ IsQuote(s[i]) /\ ends # {}
        THEN CHOOSE j \in ends : \A k \in ends : j <= k
        ELSE 0

\* Second alternative at position i: the longest run of non-space characters.
UnquotedEnd(s, i) ==
    LET ends == {j \in i..Len(s) : \A k \in i..j : s[k] # SP}
    IN  IF ends # {}
        THEN CHOOSE j \in ends : \A k \in ends : j >= k
        ELSE 0

\* The leftmost-first match starting at i (0: none starts at i).
MatchEnd(s, i) ==
    IF QuotedEnd(s, i) # 0 THEN QuotedEnd(s, i) ELSE UnquotedEnd(s, i)

RECURSIVE FindIter(_, _)
\* The successive non-overlapping matches of RE_SPLIT from position i on.
FindIter(s, i) ==
    IF i > Len(s) THEN <<>>
    ELSE LET e == MatchEnd(s, i)
         IN  IF e = 0 THEN FindIter(s, i + 1)
             ELSE <<SubSeq(s, i, e)>> \o FindIter(s, e + 1)

RECURSIVE TrimStart(_)
TrimStart(t) ==
    IF Len(t) > 0 /\ IsQuote(t[1]) THEN TrimStart(Tail(t)) ELSE t

RECURSIVE TrimEnd(_)
TrimEnd(t) ==
    IF Len(t) > 0 /\ IsQuote(t[Len(t)])
    THEN TrimEnd(SubSeq(t, 1, Len(t) - 1)) ELSE t

\* s.trim_matches(|c| c == '"' || c == '\'')
TrimMatches(t) == TrimEnd(TrimStart(t))

split_quoted(s) ==
    LET m == FindIter(s, 1)
    IN  [k \in 1..Len(m) |-> TrimMatches(m[k])]

---------------------------------------------------------------------------
(* new(): capability detection from the version query                      *)

I32Max == 2147483647

RECURSIVE ParseI32(_)
\* str::parse::<i32>() on a run of decimal digits, digit by digit with the
\* checked multiply and add of the standard library: -1 stands for the
\* ParseIntError of a value that does not fit an i32.
ParseI32(ds) ==
    IF Len(ds) = 0 THEN 0
    ELSE LET acc == ParseI32(SubSeq(ds, 1, Len(ds) - 1))
             d == ds[Len(ds)]
         IN  IF acc < 0 \/ acc > (I32Max - d) \div 10 THEN -1
             ELSE 10 * acc + d

HasCheckMut(major, minor, patch) ==
    major > 1 \/ (major = 1 /\ minor > 4 /\ patch > 10)

has_check_of(major, minor, patch) ==
    \/ major > 1
    \/ (major = 1 /\ minor > 4)
    \/ (major = 1 /\ minor = 4 /\ patch > 10)

HasWaitMut(major, minor, patch) ==
    major > 1 \/ (major = 1 /\ minor > 4 /\ patch > 19)

has_wait_of(major, minor, patch) ==
    \/ major > 1
    \/ (major = 1 /\ minor > 4)
    \/ (major = 1 /\ minor = 4 /\ patch > 19)

NewErr(kind) ==
    [tag |-> "Err", kind |-> kind, has_check |-> FALSE, has_wait |-> FALSE]

\* new(is_ipv6) for the outcome v of `cmd --version`.
new(v) ==
    IF v.kind = "spawnfail" THEN NewErr("Io")
    ELSE IF v.kind = "nomatch" THEN NewErr("Other")
    ELSE LET v_major == ParseI32(v.major)
             v_minor == ParseI32(v.minor)
             v_patch == ParseI32(v.patch)
         IN  IF v_major < 0 \/ v_minor < 0 \/ v_patch < 0 THEN NewErr("Parse")
             ELSE [tag |-> "Ok", kind |-> "",
                   has_check |-> has_check_of(v_major, v_minor, v_patch),
                   has_wait |-> has_wait_of(v_major, v_minor, v_patch)]

---------------------------------------------------------------------------
(* Names and values                                                        *)

Flag(ch) == <<"-", ch>>
WAIT == <<"-", "-", "w", "a", "i", "t">>

NAT == <<"n", "a", "t">>
FILTER == <<"f", "i", "l", "t", "e", "r">>
MANGLE == <<"m", "a", "n", "g", "l", "e">>
RAW == <<"r", "a", "w">>
SECURITY == <<"s", "e", "c", "u", "r", "i", "t", "y">>

INPUT == <<"I", "N", "P", "U", "T">>
FORWARD == <<"F", "O", "R", "W", "A", "R", "D">>
OUTPUT == <<"O", "U", "T", "P", "U", "T">>
PREROUTING == <<"P", "R", "E", "R", "O", "U", "T", "I", "N", "G">>
POSTROUTING == <<"P", "O", "S", "T", "R", "O", "U", "T", "I", "N", "G">>

BUILTIN_CHAINS_FILTER == <<INPUT, FORWARD, OUTPUT>>
BUILTIN_CHAINS_MANGLE == <<PREROUTING, OUTPUT, INPUT, FORWARD, POSTROUTING>>
BUILTIN_CHAINS_NAT == <<PREROUTING, POSTROUTING, OUTPUT>>
BUILTIN_CHAINS_RAW == <<PREROUTING, OUTPUT>>
BUILTIN_CHAINS_SECURITY == <<INPUT, OUTPUT, FORWARD>>

\* IPTResult values, one record shape for all of them: Ok(bool), Ok(()),
\* Ok(Output) with its stdout in out, and the IPTError variants of error.rs.
Ok(b, out) == [tag |-> "Ok", kind |-> "", code |-> 0, b |-> b, out |-> out, msg |-> ""]
OkUnit == Ok(FALSE, <<>>)
Err(kind, code, msg) ==
    [tag |-> "Err", kind |-> kind, code |-> code, b |-> FALSE, out |-> <<>>, msg |-> msg]
ErrIo == Err("Io", 0, "")
ErrNix(errno) == Err("Nix", 0, errno)
BadExitStatus(i) == Err("BadExitStatus", i, "")
Other(msg) == Err("Other", 0, msg)
NoResult == [tag |-> "none", kind |-> "", code |-> 0, b |-> FALSE, out |-> <<>>, msg |-> ""]

\* The policies the callers pass to set_policy
ACCEPT == <<"A", "C", "C", "E", "P", "T">>
DROP == <<"D", "R", "O", "P">>

RuleExistsMsg == "the rule exists in the table/chain"

\* ExitStatus::code() of a child that a signal ended is None
NoCode == -1

\* i32::to_string() for the positions the model uses
to_string(n) ==
    LET digit == <<"0", "1", "2", "3", "4", "5", "6", "7", "8", "9">>
    IN  IF n < 0 THEN <<"-", digit[(0 - n) + 1]>> ELSE <<digit[n + 1]>>

---------------------------------------------------------------------------
(* The external tool, as the crate's tests and callers observe it: the     *)
(* state of one table is the sequence of its chains, each a name and the   *)
(* sequence of its rules; a rule is the argument tokens it was given.      *)

ChainIndex(tbl, chain) ==
    LET hits == {i \in 1..Len(tbl) : tbl[i].name = chain}
    IN  IF hits = {} THEN 0 ELSE CHOOSE i \in hits : TRUE

RulesOf(tbl, chain) == tbl[ChainIndex(tbl, chain)].rules

SetRules(tbl, chain, rules) ==
    [tbl EXCEPT ![ChainIndex(tbl, chain)].rules = rules]

RuleIndex(rules, rule) ==
    LET hits == {i \in 1..Len(rules) : rules[i] = rule}
    IN  IF hits = {} THEN 0 ELSE CHOOSE i \in hits : \A k \in hits : i <= k

RemoveAt(seq, i) == SubSeq(seq, 1, i - 1) \o SubSeq(seq, i + 1, Len(seq))

InsertAt(seq, i, x) == SubSeq(seq, 1, i - 1) \o <<x>> \o SubSeq(seq, i, Len(seq))

\* One argument as the tool's listing prints it: in double quotes when it
\* holds a space.
ListToken(tok) ==
    IF \E i \in 1..Len(tok) : tok[i] = SP THEN <<DQ>> \o tok \o <<DQ>> ELSE tok

\* A rule as the tool's listing prints it.
ListRule(rule) == Join([i \in 1..Len(rule) |-> ListToken(rule[i])], <<SP>>)

RECURSIVE ListRules(_, _)
ListRules(chain, rules) ==
    IF Len(rules) = 0 THEN <<>>
    ELSE Flag("A") \o <<SP>> \o chain \o <<SP>> \o ListRule(rules[1]) \o <<NL>>
         \o ListRules(chain, Tail(rules))

RECURSIVE ListAllRules(_)
ListAllRules(tbl) ==
    IF Len(tbl) = 0 THEN <<>>
    ELSE ListRules(tbl[1].name, tbl[1].rules) \o ListAllRules(Tail(tbl))

RECURSIVE ListChains(_)
ListChains(tbl) ==
    IF Len(tbl) = 0 THEN <<>>
    ELSE (IF tbl[1].builtin
          THEN Flag("P") \o <<SP>> \o tbl[1].name \o <<SP>> \o tbl[1].policy \o <<NL>>
          ELSE Flag("N") \o <<SP>> \o tbl[1].name \o <<NL>>)
         \o ListChains(Tail(tbl))

\* The output of `-t table -S`: the chains, then every rule in append form.
ListTable(tbl) == ListChains(tbl) \o ListAllRules(tbl)

\* The output of `-t table -L chain`: the header line "Chain name (policy P)"
\* of a builtin chain or "Chain name (0 references)" of a user-defined one,
\* the line of column titles, and a line for each rule.
ListChain(ch) ==
    <<"C", "h", "a", "i", "n", SP>> \o ch.name \o <<SP, "(">>
    \o (IF ch.builtin
        THEN <<"p", "o", "l", "i", "c", "y", SP>> \o ch.policy
        ELSE <<"0", SP, "r", "e", "f", "e", "r", "e", "n", "c", "e", "s">>)
    \o <<")", NL>>
    \o <<"t", "a", "r", "g", "e", "t", SP, SP, "p", "r", "o", "t", NL>>
    \o Join([i \in 1..Len(ch.rules) |-> ListRule(ch.rules[i]) \o <<NL>>], <<>>)

ToolResult(f, code, out) == [fw |-> f, code |-> code, out |-> out]

\* The digits of a one-digit position argument (0: not a position)
PositionOf(tok) ==
    LET hits == {n \in 1..9 : tok = to_string(n)}
    IN  IF hits = {} THEN 0 ELSE CHOOSE n \in hits : TRUE

\* The tool run with argument vector args on state f: the new state, the
\* exit code and the standard output.
ToolExec(args, f) ==
    LET a == IF Len(args) > 0 /\ args[Len(args)] = WAIT
             THEN SubSeq(args, 1, Len(args) - 1) ELSE args
        fail(code) == ToolResult(f, code, <<>>)
    IN  IF Len(a) < 3 \/ a[1] # Flag("t") THEN fail(2)
        ELSE IF a[2] \notin DOMAIN f THEN fail(3)
        ELSE
        LET tbl == f[a[2]]
            cmd == a[3]
            chain == IF Len(a) >= 4 THEN a[4] ELSE <<>>
            has == ChainIndex(tbl, chain) # 0
            done(t) == ToolResult([f EXCEPT ![a[2]] = t], 0, <<>>)
        IN  IF cmd = Flag("S") /\ Len(a) = 3 THEN ToolResult(f, 0, ListTable(tbl))
            ELSE IF Len(a) < 4 THEN fail(2)
            ELSE IF cmd = Flag("N") THEN
                IF Len(a) # 4 THEN fail(2)
                ELSE IF has THEN fail(1)
                ELSE done(Append(tbl, [name |-> chain, builtin |-> FALSE, rules |-> <<>>,
                                       policy |-> <<>>]))
            ELSE IF cmd = Flag("F") THEN
                IF Len(a) # 4 THEN fail(2)
                ELSE IF ~has THEN fail(1)
                ELSE done(SetRules(tbl, chain, <<>>))
            ELSE IF cmd = Flag("A") THEN
                IF ~has THEN fail(1)
                ELSE done(SetRules(tbl, chain,
                                   Append(RulesOf(tbl, chain), SubSeq(a, 5, Len(a)))))
            ELSE IF cmd = Flag("I") THEN
                IF Len(a) < 5 \/ PositionOf(a[5]) = 0 THEN fail(2)
                ELSE IF ~has THEN fail(1)
                ELSE IF PositionOf(a[5]) > Len(RulesOf(tbl, chain)) + 1 THEN fail(1)
                ELSE done(SetRules(tbl, chain,
                                   InsertAt(RulesOf(tbl, chain), PositionOf(a[5]),
                                            SubSeq(a, 6, Len(a)))))
            ELSE IF cmd = Flag("D") THEN
                IF ~has THEN fail(1)
                ELSE IF RuleIndex(RulesOf(tbl, chain), SubSeq(a, 5, Len(a))) = 0 THEN fail(1)
                ELSE done(SetRules(tbl, chain,
                                   RemoveAt(RulesOf(tbl, chain),
                                            RuleIndex(RulesOf(tbl, chain), SubSeq(a, 5, Len(a))))))
            ELSE IF cmd = Flag("L") THEN
                IF Len(a) # 4 THEN fail(2)
                ELSE IF ~has THEN fail(1)
                ELSE ToolResult(f, 0, ListChain(tbl[ChainIndex(tbl, chain)]))
            ELSE IF cmd = Flag("P") THEN
                IF Len(a) # 5 \/ a[5] \notin {ACCEPT, DROP} THEN fail(2)
                ELSE IF ~has THEN fail(1)
                ELSE IF ~tbl[ChainIndex(tbl, chain)].builtin THEN fail(1)
                ELSE done([tbl EXCEPT ![ChainIndex(tbl, chain)].policy = a[5]])
            ELSE IF cmd = Flag("X") THEN
                IF Len(a) # 4 THEN fail(2)
                ELSE IF ~has THEN fail(1)
                ELSE IF tbl[ChainIndex(tbl, chain)].builtin THEN fail(1)
                ELSE IF RulesOf(tbl, chain) # <<>> THEN fail(1)
                ELSE done(RemoveAt(tbl, ChainIndex(tbl, chain)))
            ELSE IF cmd = Flag("C") THEN
                IF ~has THEN fail(1)
                ELSE IF RuleIndex(RulesOf(tbl, chain), SubSeq(a, 5, Len(a))) = 0 THEN fail(1)
                ELSE ToolResult(f, 0, <<>>)
            ELSE fail(2)

---------------------------------------------------------------------------
(* run(): the process invoker and its lock                                 *)

\* flock(fd, LockExclusiveNonblock) as the kernel answers it: granted when no
\* other open file description holds the lock, EAGAIN otherwise.
FlockGrantedMut(c) == TRUE

FlockGranted(c) == lock \ {c} = {}

\* What run() does with the errno of a failed flock: retry or give up.
FlockErrorMut(errno) == IF errno = "EAGAIN" THEN "fail" ELSE "retry"

FlockError(errno) == IF errno = "EAGAIN" THEN "retry" ELSE "fail"

\* The argument vector run(args) passes to the process.
CommandLineMut(h, args) == args \o <<WAIT>>

CommandLine(h, args) == IF h.has_wait THEN args \o <<WAIT>> ELSE args

\* match output.status.code() { None => Ok, Some(0) => Ok, Some(i) => Err }
StatusResultMut(out) ==
    IF out.code = 0 THEN Ok(FALSE, out.stdout) ELSE BadExitStatus(out.code)

StatusResult(out) ==
    IF out.code = NoCode THEN Ok(FALSE, out.stdout)
    ELSE IF out.code = 0 THEN Ok(FALSE, out.stdout)
    ELSE BadExitStatus(out.code)

NoOutput == [code |-> 0, stdout |-> <<>>]

\* The caller's state on return from run() with result rr.
Returned(r, rr, end, code) ==
    [r EXCEPT !.pc = "ret", !.rr = rr, !.end = end,
              !.log = Append(@, [cmdline |-> r.cmdline, end |-> end, code |-> code])]

SetCaller(c, r) == cs' = [cs EXCEPT ![c] = r]

SpendFault == 
    /\ budget.faults > 0
    /\ budget' = [budget EXCEPT !.faults = @ - 1]

\* File::create("/var/run/xtables_old.lock") succeeds (has_wait = false)
CreateLockFile(c) ==
    /\ cs[c].pc = "run"
    /\ ~handle[c].has_wait
    /\ open' = open \cup {c}
    /\ SetCaller(c, [cs[c] EXCEPT !.pc = "flock"])
    /\ UNCHANGED <<handle, fw, lock, mon, budget>>

\* File::create fails: the ? returns the Io error
CreateFails(c) ==
    /\ cs[c].pc = "run"
    /\ ~handle[c].has_wait
    /\ SpendFault
    /\ SetCaller(c, Returned(cs[c], ErrIo, "create_failed", 0))
    /\ UNCHANGED <<handle, fw, open, lock, mon>>

\* One pass of the while need_retry loop: the lock is granted, or the attempt
\* would block and is repeated.
FlockTry(c) ==
    /\ cs[c].pc = "flock"
    /\ IF FlockGranted(c)
       THEN /\ lock' = lock \cup {c}
            /\ SetCaller(c, [cs[c] EXCEPT !.pc = "spawn", !.flocked = "Ok"])
       ELSE /\ lock' = lock
            /\ IF FlockError("EAGAIN") = "retry"
               THEN SetCaller(c, [cs[c] EXCEPT !.flocked = "EAGAIN", !.retried = TRUE])
               ELSE SetCaller(c, Returned([cs[c] EXCEPT !.flocked = "EAGAIN"],
                                          ErrNix("EAGAIN"), "lock_failed", 0))
    /\ open' = IF cs'[c].pc = "ret" THEN open \ {c} ELSE open
    /\ UNCHANGED <<handle, fw, mon, budget>>

\* flock fails for another reason (EINTR): run returns Err(Nix), and the
\* file is closed as file_lock goes out of scope.
FlockFails(c) ==
    /\ cs[c].pc = "flock"
    /\ SpendFault
    /\ IF FlockError("EINTR") = "retry"
       THEN /\ SetCaller(c, [cs[c] EXCEPT !.flocked = "EINTR", !.retried = TRUE])
            /\ open' = open
       ELSE /\ SetCaller(c, Returned([cs[c] EXCEPT !.flocked = "EINTR"],
                                     ErrNix("EINTR"), "lock_failed", 0))
            /\ open' = open \ {c}
    /\ UNCHANGED <<handle, fw, lock, mon>>

SpawnReady(c) ==
    \/ cs[c].pc = "spawn"
    \/ cs[c].pc = "run" /\ handle[c].has_wait

\* Command::output() starts the child process
Spawn(c) ==
    /\ SpawnReady(c)
    /\ SetCaller(c, [cs[c] EXCEPT !.pc = "child", !.spawns = @ + 1,
                                  !.cmdline = CommandLine(handle[c], cs[c].argv)])
    /\ UNCHANGED <<handle, fw, open, lock, mon, budget>>

\* Command::output() cannot start the process: the ? returns the Io error,
\* and the lock file, if any, is closed as file_lock goes out of scope.
SpawnFails(c) ==
    /\ SpawnReady(c)
    /\ SpendFault
    /\ SetCaller(c, Returned([cs[c] EXCEPT !.cmdline = CommandLine(handle[c], cs[c].argv)],
                             ErrIo, "spawn_failed", 0))
    /\ open' = open \ {c}
    /\ lock' = lock \ {c}
    /\ UNCHANGED <<handle, fw, mon>>

\* The exit codes with which the tool reports a failure of its own
ToolFailureCodes == {2, 4}

\* The child runs the tool to its end and exits with the tool's code.
ChildExit(c) ==
    /\ cs[c].pc = "child"
    /\ LET t == ToolExec(cs[c].cmdline, fw)
       IN  /\ fw' = t.fw
           /\ SetCaller(c, [cs[c] EXCEPT !.pc = "exited",
                                         !.out = [code |-> t.code, stdout |-> t.out]])
    /\ UNCHANGED <<handle, open, lock, mon, budget>>

\* The tool fails for a reason of its own and changes nothing.
ChildFails(c) ==
    /\ cs[c].pc = "child"
    /\ SpendFault
    /\ \E code \in ToolFailureCodes :
          SetCaller(c, [cs[c] EXCEPT !.pc = "exited", !.upset = TRUE,
                                     !.out = [code |-> code, stdout |-> <<>>]])
    /\ UNCHANGED <<handle, fw, open, lock, mon>>

\* A signal ends the child, before or after the tool has acted.
ChildKilled(c) ==
    /\ cs[c].pc = "child"
    /\ SpendFault
    /\ fw' \in {fw, ToolExec(cs[c].cmdline, fw).fw}
    /\ SetCaller(c, [cs[c] EXCEPT !.pc = "exited", !.upset = TRUE,
                                  !.out = [code |-> NoCode, stdout |-> <<>>]])
    /\ UNCHANGED <<handle, open, lock, mon>>

DropLockMut(c) ==
    /\ cs[c].pc = "exited"
    /\ SetCaller(c, [cs[c] EXCEPT !.pc = "status"])
    /\ UNCHANGED <<handle, fw, open, lock, mon, budget>>

\* if !self.has_wait { drop(f) }: closing the file releases the lock
DropLock(c) ==
    /\ cs[c].pc = "exited"
    /\ open' = IF ~handle[c].has_wait THEN open \ {c} ELSE open
    /\ lock' = IF ~handle[c].has_wait THEN lock \ {c} ELSE lock
    /\ SetCaller(c, [cs[c] EXCEPT !.pc = "status"])
    /\ UNCHANGED <<handle, fw, mon, budget>>

\* match output.status.code(): run returns
RunReturn(c) ==
    /\ cs[c].pc = "status"
    /\ SetCaller(c, Returned(cs[c], StatusResult(cs[c].out), "exited", cs[c].out.code))
    /\ UNCHANGED <<handle, fw, open, lock, mon, budget>>

---------------------------------------------------------------------------
(* The rule and chain operations                                           *)

UnitResultMut(rr) == OkUnit

\* match self.run(..) { Ok(_) => Ok(()), Err(err) => Err(err) }
UnitResult(rr) == IF rr.tag = "Ok" THEN OkUnit ELSE rr

TableNotSupportedMsg == "given table is not supported by iptables"
NotDefaultChainGetMsg ==
    "given chain is not a default chain in the given table, can't get policy"
NotDefaultChainSetMsg ==
    "given chain is not a default chain in the given table, can't set policy"
NoPolicyMsg == "could not find the default policy for table and chain"

\* get_builtin_chains(table)
get_builtin_chains(table) ==
    IF table = FILTER THEN Ok(FALSE, BUILTIN_CHAINS_FILTER)
    ELSE IF table = MANGLE THEN Ok(FALSE, BUILTIN_CHAINS_MANGLE)
    ELSE IF table = NAT THEN Ok(FALSE, BUILTIN_CHAINS_NAT)
    ELSE IF table = RAW THEN Ok(FALSE, BUILTIN_CHAINS_RAW)
    ELSE IF table = SECURITY THEN Ok(FALSE, BUILTIN_CHAINS_SECURITY)
    ELSE Other(TableNotSupportedMsg)

InSeq(x, seq) == \E i \in 1..Len(seq) : seq[i] = x

PolicyGuardMut(op, table, chain) ==
    LET b == get_builtin_chains(table)
    IN  IF b.tag = "Err" THEN b ELSE NoResult

\* get_policy and set_policy before run(): the table must be known and the
\* chain one of its builtin chains; NoResult when the call goes on.
PolicyGuard(op, table, chain) ==
    LET b == get_builtin_chains(table)
    IN  IF b.tag = "Err" THEN b
        ELSE IF ~InSeq(chain, b.out)
        THEN Other(IF op = "get_policy" THEN NotDefaultChainGetMsg
                   ELSE NotDefaultChainSetMsg)
        ELSE NoResult

\* An index past the end of a Vec: the thread panics
Panic == [tag |-> "Panic", kind |-> "", code |-> 0, msg |-> "", b |-> FALSE, out |-> <<>>]

RECURSIVE PolicyOfLines(_, _)
\* get_policy: the loop over the lines of the listing
PolicyOfLines(lines, chain) ==
    IF Len(lines) = 0 THEN Other(NoPolicyMsg)
    ELSE LET fields == Split(lines[1], SP)
         IN  IF Len(fields) > 1 /\ fields[1] = <<"C", "h", "a", "i", "n">>
                /\ fields[2] = chain
             THEN IF Len(fields) < 4 THEN Panic
                  ELSE Ok(FALSE, Remove(fields[4], ")"))
             ELSE PolicyOfLines(Tail(lines), chain)

GetPolicyResultMut(rr, chain) ==
    IF rr.tag # "Ok" THEN rr
    ELSE LET fields == Split(Split(Trim(rr.out), NL)[1], SP)
         IN  IF Len(fields) < 3 THEN Other(NoPolicyMsg) ELSE Ok(FALSE, fields[3])

\* get_policy after run(..)?
GetPolicyResult(rr, chain) ==
    IF rr.tag # "Ok" THEN rr ELSE PolicyOfLines(Split(Trim(rr.out), NL), chain)

RECURSIVE ChainsOfLines(_)
\* list_chains: the loop over the lines of the listing
ChainsOfLines(lines) ==
    IF Len(lines) = 0 THEN <<>>
    ELSE LET fields == Split(lines[1], SP)
         IN  (IF Len(fields) > 1 /\ fields[1] \in {Flag("P"), Flag("N")}
              THEN <<fields[2]>> ELSE <<>>)
             \o ChainsOfLines(Tail(lines))

ListChainsResultMut(rr) ==
    IF rr.tag # "Ok" THEN rr
    ELSE Ok(FALSE, SelectSeq(ChainsOfLines(Split(Trim(rr.out), NL)),
                             LAMBDA n : n \in {INPUT, FORWARD, OUTPUT, PREROUTING, POSTROUTING}))

\* list_chains after run(..)?
ListChainsResult(rr) ==
    IF rr.tag # "Ok" THEN rr ELSE Ok(FALSE, ChainsOfLines(Split(Trim(rr.out), NL)))

ChainExistsResultMut(rr) ==
    IF rr.tag = "Ok" THEN Ok(TRUE, <<>>)
    ELSE IF rr.kind = "BadExitStatus" /\ rr.code \in {1, 2} THEN Ok(FALSE, <<>>)
    ELSE rr

\* chain_exists(): the match on the result of the -L run
ChainExistsResult(rr) ==
    IF rr.tag = "Ok" THEN Ok(TRUE, <<>>)
    ELSE IF rr.kind = "BadExitStatus" /\ rr.code = 1 THEN Ok(FALSE, <<>>)
    ELSE rr

\* exists(), has_check = true: the match on the result of the -C run
CheckResultMut(rr) ==
    IF rr.tag = "Ok" THEN Ok(TRUE, <<>>)
    ELSE IF rr.kind = "BadExitStatus" /\ rr.code = 1 THEN Ok(FALSE, <<>>)
    ELSE rr

CheckResult(rr) ==
    IF rr.tag = "Ok" THEN Ok(TRUE, <<>>)
    ELSE IF rr.kind = "BadExitStatus" /\ rr.code = 1 THEN Ok(FALSE, <<>>)
    ELSE IF rr.kind = "BadExitStatus" /\ rr.code = 2 THEN Ok(FALSE, <<>>)
    ELSE rr

AppendFormMut(chain, rule) == Flag("A") \o <<SP>> \o chain \o rule

\* format!("-A {} {}", chain, rule)
AppendForm(chain, rule) == Flag("A") \o <<SP>> \o chain \o <<SP>> \o rule

\* exists_old_version() searching the listing for "-A chain" alone
ExistsOldChainMut(rr, chain, rule) ==
    IF rr.tag = "Ok" THEN Ok(Contains(rr.out, Flag("A") \o <<SP>> \o chain), <<>>)
    ELSE rr

\* exists_old_version(): the match on the result of the -S run
exists_old_version_result(rr, chain, rule) ==
    IF rr.tag = "Ok" THEN Ok(Contains(rr.out, AppendForm(chain, rule)), <<>>)
    ELSE rr

\* The first sub-operation of each public operation; the simple operations
\* are their own only step.
FirstStep(op) ==
    IF op \in {"insert_unique", "append_unique", "append_replace", "delete_all"}
    THEN "exists" ELSE op

\* The arguments the sub-operation `step` gives to run().
StepArgv(h, step, table, chain, rule, pos, policy) ==
    LET t == <<Flag("t"), table>>
    IN  CASE step = "exists" ->
               IF ~h.has_check THEN t \o <<Flag("S")>>
               ELSE t \o <<Flag("C"), chain>> \o split_quoted(rule)
          [] step = "append" -> t \o <<Flag("A"), chain>> \o split_quoted(rule)
          [] step = "delete" -> t \o <<Flag("D"), chain>> \o split_quoted(rule)
          [] step = "insert" ->
               t \o <<Flag("I"), chain, to_string(pos)>> \o split_quoted(rule)
          [] step = "new_chain" -> t \o <<Flag("N"), chain>>
          [] step = "flush_chain" -> t \o <<Flag("F"), chain>>
          [] step = "delete_chain" -> t \o <<Flag("X"), chain>>
          [] step = "chain_exists" -> t \o <<Flag("L"), chain>>
          [] step = "list_chains" -> t \o <<Flag("S")>>
          [] step = "get_policy" -> t \o <<Flag("L"), chain>>
          [] step = "set_policy" -> t \o <<Flag("P"), chain, policy>>
          [] step = "execute" -> t \o split_quoted(AppendForm(chain, rule))

\* What the sub-operation returns for run()'s result rr.
StepResult(h, step, rr, chain, rule) ==
    IF step = "exists"
    THEN IF ~h.has_check THEN exists_old_version_result(rr, chain, rule)
         ELSE CheckResult(rr)
    ELSE IF step = "execute" THEN rr
    ELSE IF step = "get_policy" THEN GetPolicyResult(rr, chain)
    ELSE IF step = "list_chains" THEN ListChainsResult(rr)
    ELSE IF step = "chain_exists" THEN ChainExistsResult(rr)
    ELSE UnitResult(rr)

Goto(step) == [next |-> step, ret |-> NoResult]
Return(res) == [next |-> "", ret |-> res]

\* insert_unique and append_unique after exists()?
UniqueAfterExistsMut(sub, then) ==
    IF sub.tag = "Err" THEN Return(sub) ELSE Goto(then)

UniqueAfterExists(sub, then) ==
    IF sub.tag = "Err" THEN Return(sub)
    ELSE IF sub.b THEN Return(Other(RuleExistsMsg))
    ELSE Goto(then)

\* append_replace after exists()? and after delete()?
ReplaceAfterMut(step, sub) ==
    IF sub.tag = "Err" THEN Return(sub) ELSE Goto("append")

ReplaceAfter(step, sub) ==
    IF sub.tag = "Err" THEN Return(sub)
    ELSE IF step = "exists" /\ sub.b THEN Goto("delete")
    ELSE Goto("append")

\* delete_all as: loop { self.exists(..)?; self.delete(..)?; }
DeleteAllUntilErrMut(step, sub) ==
    IF sub.tag = "Err" THEN Return(sub)
    ELSE IF step = "exists" THEN Goto("delete")
    ELSE Goto("exists")

\* delete_all as: if self.exists(..)? { self.delete(..)?; } Ok(true)
DeleteAllAfterMut(step, sub) ==
    IF sub.tag = "Err" THEN Return(sub)
    ELSE IF step = "exists" /\ sub.b THEN Goto("delete")
    ELSE Return(Ok(TRUE, <<>>))

\* delete_all: while self.exists(..)? { self.delete(..)?; } Ok(true)
DeleteAllAfter(step, sub) ==
    IF sub.tag = "Err" THEN Return(sub)
    ELSE IF step = "exists" /\ ~sub.b THEN Return(Ok(TRUE, <<>>))
    ELSE IF step = "exists" THEN Goto("delete")
    ELSE Goto("exists")

\* How the public operation op goes on when its sub-operation `step` has
\* returned sub: with another sub-operation, or by returning.
Continue(op, step, sub) ==
    IF op = "insert_unique" /\ step = "exists" THEN UniqueAfterExists(sub, "insert")
    ELSE IF op = "append_unique" /\ step = "exists" THEN UniqueAfterExists(sub, "append")
    ELSE IF op = "append_replace" /\ step \in {"exists", "delete"} THEN ReplaceAfter(step, sub)
    ELSE IF op = "delete_all" /\ step \in {"exists", "delete"} THEN DeleteAllAfter(step, sub)
    ELSE Return(sub)

CH1 == <<"c", "1">>
CH2 == <<"c", "2">>

\* The number of rules of the chain equal to rule
Count(rules, rule) == Cardinality({i \in 1..Len(rules) : rules[i] = rule})

ChainRules(f, table, chain) ==
    IF table \in DOMAIN f /\ ChainIndex(f[table], chain) # 0
    THEN RulesOf(f[table], chain) ELSE <<>>

\* The names the callers give to user-defined chains
UserNames == {CH1, CH2}

\* The observer of the user-defined chains of table nat: "yes" from a chain's
\* successful new_chain, "no" from its successful delete_chain, "unknown"
\* once such a call's process did not run the tool to its end.
LiveNext(live, r, res) ==
    IF r.table # NAT \/ r.chain \notin UserNames
       \/ r.op \notin {"new_chain", "delete_chain"} THEN live
    ELSE IF r.upset THEN [live EXCEPT ![r.chain] = "unknown"]
    ELSE IF res.tag # "Ok" THEN live
    ELSE [live EXCEPT ![r.chain] = IF r.op = "new_chain" THEN "yes" ELSE "no"]

NoPolicySet == [table |-> <<>>, chain |-> <<>>, policy |-> <<>>]

\* The observer of the policies: the last successful set_policy, forgotten
\* when a later set_policy of the same chain did not run the tool to its end.
PolNext(pol, r, res) ==
    IF r.op # "set_policy" THEN pol
    ELSE IF res.tag = "Ok" /\ ~r.upset
    THEN [table |-> r.table, chain |-> r.chain, policy |-> r.policy]
    ELSE IF r.upset /\ pol.table = r.table /\ pol.chain = r.chain THEN NoPolicySet
    ELSE pol

\* The observer of chain CH1 of table nat: "fresh" from its creation, "added"
\* once one rule has been added to the fresh chain, "removed" once that rule
\* has been deleted or the chain flushed; "other" after anything else.  Only
\* calls whose processes all ran the tool to its end move it forward.  It
\* also counts the successful append_replace calls of one rule in succession
\* (streak, at most 2) and the instances the chain held before the first.
MonNext(m, r, res) ==
    LET clean == res.tag = "Ok" /\ ~r.upset
        onC1 == r.table = NAT /\ r.chain = CH1
        p == IF ~onC1 \/ r.op = "exists" THEN m
             ELSE IF r.op = "new_chain" /\ clean
                  THEN [m EXCEPT !.phase = "fresh", !.rule = <<>>]
             ELSE IF m.phase = "fresh" /\ r.op \in {"append", "insert", "execute"} /\ clean
                  THEN [m EXCEPT !.phase = "added", !.rule = r.rule]
             ELSE IF m.phase = "added" /\ clean
                     /\ (r.op = "flush_chain" \/ (r.op = "delete" /\ r.rule = m.rule))
                  THEN [m EXCEPT !.phase = "removed"]
             ELSE [m EXCEPT !.phase = "other", !.rule = <<>>]
        q == IF onC1 /\ r.op = "append_replace" /\ clean
             THEN IF m.streak > 0 /\ m.srule = r.rule
                  THEN [p EXCEPT !.streak = 2]
                  ELSE [p EXCEPT !.streak = 1, !.srule = r.rule,
                                 !.count0 = Count(r.rules0, split_quoted(r.rule))]
             ELSE [p EXCEPT !.streak = 0, !.srule = <<>>, !.count0 = 0]
    IN  [q EXCEPT !.live = LiveNext(m.live, r, res), !.pol = PolNext(m.pol, r, res)]

Idle ==
    [op |-> "none", table |-> <<>>, chain |-> <<>>, rule |-> <<>>, pos |-> 0,
     policy |-> <<>>,
     step |-> "", pc |-> "idle", argv |-> <<>>, cmdline |-> <<>>, out |-> NoOutput,
     rr |-> NoResult, res |-> NoResult, end |-> "", spawns |-> 0, flocked |-> "",
     retried |-> FALSE,
     upset |-> FALSE, log |-> <<>>, rules0 |-> <<>>, sub |-> NoResult]

\* Entry into run(args)
EnterRun(r, h, step) ==
    [r EXCEPT !.step = step, !.pc = "run", !.spawns = 0, !.flocked = "", !.end = "",
              !.retried = FALSE,
              !.argv = StepArgv(h, step, r.table, r.chain, r.rule, r.pos, r.policy),
              !.cmdline = <<>>, !.out = NoOutput, !.rr = NoResult]

\* A caller calls the public operation op.
Call(c, op, table, chain, rule, pos) ==
    /\ cs[c].pc = "idle"
    /\ SetCaller(c, EnterRun([Idle EXCEPT
                                 !.op = op, !.table = table, !.chain = chain,
                                 !.rule = rule, !.pos = pos,
                                 !.rules0 = ChainRules(fw, table, chain)],
                             handle[c], FirstStep(op)))
    /\ UNCHANGED <<handle, fw, open, lock, mon>>

\* A caller calls get_policy (policy empty) or set_policy: the operation
\* returns at once when its guard rejects the table or the chain.
CallPolicy(c, op, table, chain, policy) ==
    /\ cs[c].pc = "idle"
    /\ LET r == [Idle EXCEPT !.op = op, !.table = table, !.chain = chain,
                             !.policy = policy]
           guard == PolicyGuard(op, table, chain)
       IN  IF guard.tag = "Err"
           THEN SetCaller(c, [r EXCEPT !.res = guard])
           ELSE SetCaller(c, EnterRun(r, handle[c], op))
    /\ UNCHANGED <<handle, fw, open, lock, mon>>

\* run() has returned to the operation: it goes on or returns to its caller.
OpContinue(c) ==
    /\ cs[c].pc = "ret"
    /\ LET r == cs[c]
           sub == StepResult(handle[c], r.step, r.rr, r.chain, r.rule)
           k == Continue(r.op, r.step, sub)
           seen == IF r.step = "exists" THEN [r EXCEPT !.sub = sub] ELSE r
       IN  IF k.next # ""
           THEN /\ SetCaller(c, EnterRun(seen, handle[c], k.next))
                /\ mon' = mon
           ELSE /\ SetCaller(c, [seen EXCEPT !.pc = "idle", !.res = k.ret])
                /\ mon' = MonNext(mon, r, k.ret)
    /\ UNCHANGED <<handle, fw, open, lock, budget>>

---------------------------------------------------------------------------
(* The specification of new(): every version output within the bounds      *)

MaxPatchDigits == 2

Digit == 0..9

DigitStrings(n) == UNION {[1..k -> Digit] : k \in 1..n}

\* 2147483647 and 2147483648: the largest i32 and the first value past it
I32Edge == {<<2, 1, 4, 7, 4, 8, 3, 6, 4, 7>>, <<2, 1, 4, 7, 4, 8, 3, 6, 4, 8>>}

VersionOutputs ==
    {[kind |-> "match", major |-> <<a>>, minor |-> <<b>>, patch |-> p] :
        a \in Digit, b \in Digit, p \in DigitStrings(MaxPatchDigits) \cup I32Edge}
    \cup {[kind |-> k, major |-> <<0>>, minor |-> <<0>>, patch |-> <<0>>] :
        k \in {"spawnfail", "nomatch"}}

NotCalled == [tag |-> "none", kind |-> "", has_check |-> FALSE, has_wait |-> FALSE]

---------------------------------------------------------------------------
(* Callers, handles, inputs and initial states of the operations           *)

Callers == {1, 2}

HandleOf(d) == [has_check |-> d.has_check, has_wait |-> d.has_wait]

Version(a, b, p) == [kind |-> "match", major |-> <<a>>, minor |-> <<b>>, patch |-> p]

\* The handles new() builds for 1.4.10, 1.4.11 and 1.4.20; the first is also
\* the handle the tests build by hand.
Handles ==
    {HandleOf(new(v)) : v \in {Version(1, 4, <<1, 0>>), Version(1, 4, <<1, 1>>),
                               Version(1, 4, <<2, 0>>)}}

NoHandle == [has_check |-> FALSE, has_wait |-> FALSE]

Builtins(names) ==
    [i \in 1..Len(names) |->
        [name |-> names[i], builtin |-> TRUE, rules |-> <<>>, policy |-> ACCEPT]]

UserChain(name, rules) ==
    [name |-> name, builtin |-> FALSE, rules |-> rules, policy |-> <<>>]

\* The rule strings the callers pass
R_a == <<"a">>
R_ab == <<"a", " ", "b">>
R_dq == <<DQ, "a", " ", "b", DQ>>
R_sq == <<SQ, "a", " ", "b", SQ>>

\* A rule of another chain whose one argument reads like a line of CH1
Decoy == <<AppendForm(CH1, R_a)>>

MonOf(f) ==
    [phase |-> IF ChainIndex(f[NAT], CH1) # 0 /\ RulesOf(f[NAT], CH1) = <<>>
               THEN "fresh" ELSE "other",
     rule |-> <<>>, streak |-> 0, srule |-> <<>>, count0 |-> 0,
     live |-> [n \in UserNames |-> IF ChainIndex(f[NAT], n) # 0 THEN "yes" ELSE "no"],
     pol |-> NoPolicySet]

MaxFaults == 1

OpsFrozen ==
    /\ handle = [c \in Callers |-> NoHandle]
    /\ fw = (NAT :> Builtins(BUILTIN_CHAINS_NAT)) @@ (FILTER :> Builtins(BUILTIN_CHAINS_FILTER))
    /\ open = {}
    /\ lock = {}
    /\ cs = [c \in Callers |-> Idle]
    /\ mon = MonOf(fw)
    /\ budget = [calls |-> 0, faults |-> 0]

VersionFrozen ==
    /\ ver = Version(1, 4, <<0>>)
    /\ detected = NotCalled

NotSplit == [called |-> FALSE, out |-> <<>>]

SplitFrozen ==
    /\ text = <<>>
    /\ tokens = NotSplit

PureFrozen == VersionFrozen /\ SplitFrozen

---------------------------------------------------------------------------
(* SeqSpec: one caller and the simple operations on chain CH1 of table nat, *)
(* in any order and number; the chain holds at most MaxRules rules         *)

MaxRules == 2

SeqRules == {R_a, R_dq, R_sq}

SeqCalls ==
    {<<op, <<>>, 0>> : op \in {"new_chain", "flush_chain"}}
    \cup {<<op, r, 0>> : op \in {"append", "delete", "exists", "execute"}, r \in SeqRules}
    \cup {<<"insert", r, p>> : r \in SeqRules, p \in {1, 2}}

Adding == {"append", "insert", "execute", "insert_unique", "append_unique",
           "append_replace"}

\* The tables of SeqSpec at the start: CH1 absent, CH1 empty, or CH1 empty
\* beside a chain CH2 with the decoy rule.
SeqInitialNat ==
    {Builtins(BUILTIN_CHAINS_NAT) \o extra :
        extra \in {<<>>,
                   <<UserChain(CH1, <<>>)>>,
                   <<UserChain(CH1, <<>>), UserChain(CH2, <<Decoy>>)>>}}

FwWith(n) == (NAT :> n) @@ (FILTER :> Builtins(BUILTIN_CHAINS_FILTER))

SeqInit ==
    /\ PureFrozen
    /\ \E h \in Handles : handle = [c \in Callers |-> IF c = 1 THEN h ELSE NoHandle]
    /\ \E n \in SeqInitialNat : fw = FwWith(n)
    /\ open = {}
    /\ lock = {}
    /\ cs = [c \in Callers |-> Idle]
    /\ mon = MonOf(fw)
    /\ budget = [calls |-> 0, faults |-> MaxFaults]

SeqCall ==
    /\ \E k \in SeqCalls :
          /\ k[1] \in Adding => Len(ChainRules(fw, NAT, CH1)) < MaxRules
          /\ Call(1, k[1], NAT, CH1, k[2], k[3])
    /\ UNCHANGED <<budget, pureVars>>

SeqNext ==
    \/ SeqCall
    \/ \E c \in {1} :
          \/ CreateLockFile(c) /\ UNCHANGED pureVars
          \/ CreateFails(c) /\ UNCHANGED pureVars
          \/ FlockTry(c) /\ UNCHANGED pureVars
          \/ FlockFails(c) /\ UNCHANGED pureVars
          \/ Spawn(c) /\ UNCHANGED pureVars
          \/ SpawnFails(c) /\ UNCHANGED pureVars
          \/ ChildExit(c) /\ UNCHANGED pureVars
          \/ ChildFails(c) /\ UNCHANGED pureVars
          \/ ChildKilled(c) /\ UNCHANGED pureVars
          \/ DropLock(c) /\ UNCHANGED pureVars
          \/ RunReturn(c) /\ UNCHANGED pureVars
          \/ OpContinue(c) /\ UNCHANGED pureVars

SeqSpec == SeqInit /\ [][SeqNext]_vars

---------------------------------------------------------------------------
(* Spec: two callers, each with a handle of its own, calling operations on *)
(* chains of two tables concurrently                                       *)

MaxCalls == 2

SpecCalls ==
    {<<op, t[1], t[2], R_a>> : op \in {"append", "exists"},
                               t \in {<<NAT, CH1>>, <<FILTER, INPUT>>}}

Init ==
    /\ PureFrozen
    /\ handle \in [Callers -> Handles]
    /\ fw = FwWith(Builtins(BUILTIN_CHAINS_NAT) \o <<UserChain(CH1, <<>>)>>)
    /\ open = {}
    /\ lock = {}
    /\ cs = [c \in Callers |-> Idle]
    /\ mon = MonOf(fw)
    /\ budget = [calls |-> MaxCalls, faults |-> MaxFaults]

SpecCall(c) ==
    /\ budget.calls > 0
    /\ budget' = [budget EXCEPT !.calls = @ - 1]
    /\ \E k \in SpecCalls : Call(c, k[1], k[2], k[3], k[4], 0)
    /\ UNCHANGED pureVars

Next ==
    \E c \in Callers :
        \/ SpecCall(c)
        \/ CreateLockFile(c) /\ UNCHANGED pureVars
        \/ CreateFails(c) /\ UNCHANGED pureVars
        \/ FlockTry(c) /\ UNCHANGED pureVars
        \/ FlockFails(c) /\ UNCHANGED pureVars
        \/ Spawn(c) /\ UNCHANGED pureVars
        \/ SpawnFails(c) /\ UNCHANGED pureVars
        \/ ChildExit(c) /\ UNCHANGED pureVars
        \/ ChildFails(c) /\ UNCHANGED pureVars
        \/ ChildKilled(c) /\ UNCHANGED pureVars
        \/ DropLock(c) /\ UNCHANGED pureVars
        \/ RunReturn(c) /\ UNCHANGED pureVars
        \/ OpContinue(c) /\ UNCHANGED pureVars

Spec == Init /\ [][Next]_vars

---------------------------------------------------------------------------
(* UniqueSpec: one caller and the composite operations on chain CH1 of      *)
(* table nat, from every initial content of the chain                      *)

MaxUniqueRules == 3

UniqueRules == {R_a, R_dq, R_sq}

UniqueCalls ==
    {<<op, r, 0>> : op \in {"append_unique", "append_replace", "delete_all"},
                    r \in UniqueRules}
    \cup {<<"insert_unique", r, p>> : r \in UniqueRules, p \in {1, 2}}

\* The tables of UniqueSpec at the start: CH1 empty, with one rule, with a
\* rule that another rule string is a prefix of, with two instances of one
\* rule, or empty beside a chain CH2 with the decoy rule.
UniqueInitialNat ==
    {Builtins(BUILTIN_CHAINS_NAT) \o extra :
        extra \in {<<UserChain(CH1, <<>>)>>,
                   <<UserChain(CH1, <<split_quoted(R_a)>>)>>,
                   <<UserChain(CH1, <<split_quoted(R_ab)>>)>>,
                   <<UserChain(CH1, <<split_quoted(R_dq), split_quoted(R_dq)>>)>>,
                   <<UserChain(CH1, <<>>), UserChain(CH2, <<Decoy>>)>>}}

UniqueInit ==
    /\ PureFrozen
    /\ \E h \in Handles : handle = [c \in Callers |-> IF c = 1 THEN h ELSE NoHandle]
    /\ \E n \in UniqueInitialNat : fw = FwWith(n)
    /\ open = {}
    /\ lock = {}
    /\ cs = [c \in Callers |-> Idle]
    /\ mon = MonOf(fw)
    /\ budget = [calls |-> 0, faults |-> MaxFaults]

UniqueCall ==
    /\ \E k \in UniqueCalls :
          /\ k[1] \in Adding => Len(ChainRules(fw, NAT, CH1)) < MaxUniqueRules
          /\ Call(1, k[1], NAT, CH1, k[2], k[3])
    /\ UNCHANGED <<budget, pureVars>>

UniqueNext ==
    \/ UniqueCall
    \/ \E c \in {1} :
          \/ CreateLockFile(c) /\ UNCHANGED pureVars
          \/ CreateFails(c) /\ UNCHANGED pureVars
          \/ FlockTry(c) /\ UNCHANGED pureVars
          \/ FlockFails(c) /\ UNCHANGED pureVars
          \/ Spawn(c) /\ UNCHANGED pureVars
          \/ SpawnFails(c) /\ UNCHANGED pureVars
          \/ ChildExit(c) /\ UNCHANGED pureVars
          \/ ChildFails(c) /\ UNCHANGED pureVars
          \/ ChildKilled(c) /\ UNCHANGED pureVars
          \/ DropLock(c) /\ UNCHANGED pureVars
          \/ RunReturn(c) /\ UNCHANGED pureVars
          \/ OpContinue(c) /\ UNCHANGED pureVars

UniqueSpec == UniqueInit /\ [][UniqueNext]_vars

---------------------------------------------------------------------------
(* ReplaceSpec: caller 1 makes append_replace calls and caller 2 exists    *)
(* calls, concurrently, for one rule of chain CH1, which holds it once     *)

MaxReplaceCalls == 2

ReplaceInit ==
    /\ PureFrozen
    /\ handle \in [Callers -> Handles]
    /\ fw = FwWith(Builtins(BUILTIN_CHAINS_NAT) \o <<UserChain(CH1, <<split_quoted(R_a)>>)>>)
    /\ open = {}
    /\ lock = {}
    /\ cs = [c \in Callers |-> Idle]
    /\ mon = MonOf(fw)
    /\ budget = [calls |-> MaxReplaceCalls, faults |-> MaxFaults]

ReplaceCall(c) ==
    /\ budget.calls > 0
    /\ budget' = [budget EXCEPT !.calls = @ - 1]
    /\ Call(c, IF c = 1 THEN "append_replace" ELSE "exists", NAT, CH1, R_a, 0)
    /\ UNCHANGED pureVars

ReplaceNext ==
    \E c \in Callers :
        \/ ReplaceCall(c)
        \/ CreateLockFile(c) /\ UNCHANGED pureVars
        \/ CreateFails(c) /\ UNCHANGED pureVars
        \/ FlockTry(c) /\ UNCHANGED pureVars
        \/ FlockFails(c) /\ UNCHANGED pureVars
        \/ Spawn(c) /\ UNCHANGED pureVars
        \/ SpawnFails(c) /\ UNCHANGED pureVars
        \/ ChildExit(c) /\ UNCHANGED pureVars
        \/ ChildFails(c) /\ UNCHANGED pureVars
        \/ ChildKilled(c) /\ UNCHANGED pureVars
        \/ DropLock(c) /\ UNCHANGED pureVars
        \/ RunReturn(c) /\ UNCHANGED pureVars
        \/ OpContinue(c) /\ UNCHANGED pureVars

ReplaceSpec == ReplaceInit /\ [][ReplaceNext]_vars

---------------------------------------------------------------------------
(* DeleteAllSpec: caller 1 makes one delete_all call for a rule of chain   *)
(* CH1 while caller 2 appends the rule at most MaxAppends times; every     *)
(* step of a call that has begun is eventually taken                       *)

MaxAppends == 1

DeleteAllInitialNat ==
    {Builtins(BUILTIN_CHAINS_NAT) \o <<UserChain(CH1, rules)>> :
        rules \in {<<>>, <<split_quoted(R_a)>>}}

DeleteAllInit ==
    /\ PureFrozen
    /\ \E h \in Handles : handle = [c \in Callers |-> h]
    /\ \E n \in DeleteAllInitialNat : fw = FwWith(n)
    /\ open = {}
    /\ lock = {}
    /\ cs = [c \in Callers |-> Idle]
    /\ mon = MonOf(fw)
    /\ budget = [calls |-> MaxAppends, faults |-> MaxFaults]

DeleteAllCall ==
    /\ cs[1].op = "none"
    /\ Call(1, "delete_all", NAT, CH1, R_a, 0)
    /\ UNCHANGED <<budget, pureVars>>

AppendCall ==
    /\ budget.calls > 0
    /\ budget' = [budget EXCEPT !.calls = @ - 1]
    /\ Call(2, "append", NAT, CH1, R_a, 0)
    /\ UNCHANGED pureVars

\* The steps of caller c that the thread and its child process take when
\* nothing fails
Step(c) ==
    \/ CreateLockFile(c) /\ UNCHANGED pureVars
    \/ FlockTry(c) /\ UNCHANGED pureVars
    \/ Spawn(c) /\ UNCHANGED pureVars
    \/ ChildExit(c) /\ UNCHANGED pureVars
    \/ DropLock(c) /\ UNCHANGED pureVars
    \/ RunReturn(c) /\ UNCHANGED pureVars
    \/ OpContinue(c) /\ UNCHANGED pureVars

\* The failures of a run
Fault(c) ==
    \/ CreateFails(c) /\ UNCHANGED pureVars
    \/ FlockFails(c) /\ UNCHANGED pureVars
    \/ SpawnFails(c) /\ UNCHANGED pureVars
    \/ ChildFails(c) /\ UNCHANGED pureVars
    \/ ChildKilled(c) /\ UNCHANGED pureVars

DeleteAllNext ==
    \/ DeleteAllCall
    \/ AppendCall
    \/ \E c \in Callers : Step(c) \/ Fault(c)

\* Each caller is a thread of its own and each child a process of its own:
\* the scheduler runs it, the non-blocking flock returns, the tool ends.
DeleteAllSpec ==
    DeleteAllInit /\ [][DeleteAllNext]_vars /\ \A c \in Callers : WF_vars(Step(c))

---------------------------------------------------------------------------
(* LockSpec: two callers whose handles lock the file themselves (has_wait  *)
(* = false) call exists for one rule of chain CH1, any number of times;    *)
(* every step of a call that has begun is eventually taken                 *)

LockCalls == {"exists"}

LockInit ==
    /\ PureFrozen
    /\ handle \in [Callers -> {h \in Handles : ~h.has_wait}]
    /\ fw = FwWith(Builtins(BUILTIN_CHAINS_NAT) \o <<UserChain(CH1, <<split_quoted(R_a)>>)>>)
    /\ open = {}
    /\ lock = {}
    /\ cs = [c \in Callers |-> Idle]
    /\ mon = MonOf(fw)
    /\ budget = [calls |-> 0, faults |-> MaxFaults]

LockCall(c) ==
    /\ \E op \in LockCalls : Call(c, op, NAT, CH1, R_a, 0)
    /\ UNCHANGED <<budget, pureVars>>

LockNext ==
    \E c \in Callers : LockCall(c) \/ Step(c) \/ Fault(c)

\* Weak fairness on each caller's steps: a thread that can go on is run, the
\* non-blocking flock returns, and each child process ends.
LockSpec ==
    LockInit /\ [][LockNext]_vars /\ \A c \in Callers : WF_vars(Step(c))

---------------------------------------------------------------------------
(* ExistsSpec: one caller and exists calls for four rule strings on chain  *)
(* CH1 of table nat, on each kind of handle and each of six table contents *)

ExistsRules == {R_a, R_ab, R_dq, R_sq}

\* The tables of ExistsSpec: CH1 empty, with the rule a, with the rule a b
\* (two arguments), with the rule "a b" (one argument), with both, or empty
\* beside a chain CH2 with the decoy rule.
ExistsInitialNat ==
    {Builtins(BUILTIN_CHAINS_NAT) \o extra :
        extra \in {<<UserChain(CH1, <<>>)>>,
                   <<UserChain(CH1, <<split_quoted(R_a)>>)>>,
                   <<UserChain(CH1, <<split_quoted(R_ab)>>)>>,
                   <<UserChain(CH1, <<split_quoted(R_dq)>>)>>,
                   <<UserChain(CH1, <<split_quoted(R_ab), split_quoted(R_a)>>)>>,
                   <<UserChain(CH1, <<>>), UserChain(CH2, <<Decoy>>)>>}}

ExistsInit ==
    /\ PureFrozen
    /\ \E h \in Handles : handle = [c \in Callers |-> IF c = 1 THEN h ELSE NoHandle]
    /\ \E n \in ExistsInitialNat : fw = FwWith(n)
    /\ open = {}
    /\ lock = {}
    /\ cs = [c \in Callers |-> Idle]
    /\ mon = MonOf(fw)
    /\ budget = [calls |-> 0, faults |-> MaxFaults]

ExistsCall ==
    /\ \E r \in ExistsRules : Call(1, "exists", NAT, CH1, r, 0)
    /\ UNCHANGED <<budget, pureVars>>

ExistsNext == ExistsCall \/ Step(1) \/ Fault(1)

ExistsSpec == ExistsInit /\ [][ExistsNext]_vars

---------------------------------------------------------------------------
(* RaceSpec: two callers make append_unique and insert_unique calls for    *)
(* one rule concurrently, MaxRaceCalls in all, on a chain CH1 that starts  *)
(* empty; every process runs the tool to its end                           *)

MaxRaceCalls == 3

RaceCalls == {<<"append_unique", 0>>, <<"insert_unique", 1>>}

RaceInit ==
    /\ PureFrozen
    /\ \E h \in Handles : handle = [c \in Callers |-> h]
    /\ fw = FwWith(Builtins(BUILTIN_CHAINS_NAT) \o <<UserChain(CH1, <<>>)>>)
    /\ open = {}
    /\ lock = {}
    /\ cs = [c \in Callers |-> Idle]
    /\ mon = MonOf(fw)
    /\ budget = [calls |-> MaxRaceCalls, faults |-> 0]

RaceCall(c) ==
    /\ budget.calls > 0
    /\ budget' = [budget EXCEPT !.calls = @ - 1]
    /\ \E k \in RaceCalls : Call(c, k[1], NAT, CH1, R_a, k[2])
    /\ UNCHANGED pureVars

RaceNext ==
    \E c \in Callers : RaceCall(c) \/ Step(c)

RaceSpec == RaceInit /\ [][RaceNext]_vars

---------------------------------------------------------------------------
(* PolicySpec: one caller, get_policy and set_policy on every table and    *)
(* chain name, on a system with the five tables and a user-defined chain   *)

Tables == {FILTER, MANGLE, NAT, RAW, SECURITY}

\* A table name the tool does not know
NoTable == <<"x">>

PolicyTables == Tables \cup {NoTable}

PolicyChains == {INPUT, FORWARD, OUTPUT, PREROUTING, POSTROUTING, CH1, CH2}

PolicyFw ==
    (FILTER :> Builtins(BUILTIN_CHAINS_FILTER))
    @@ (MANGLE :> Builtins(BUILTIN_CHAINS_MANGLE))
    @@ (NAT :> Builtins(BUILTIN_CHAINS_NAT) \o <<UserChain(CH1, <<>>)>>)
    @@ (RAW :> Builtins(BUILTIN_CHAINS_RAW))
    @@ (SECURITY :> Builtins(BUILTIN_CHAINS_SECURITY))

\* The caller goes through the tables and chains until one set_policy has
\* changed a policy or succeeded; from then on it works on the chain of that
\* call and on INPUT of filter.
Focus(t, ch) ==
    \/ mon.pol = NoPolicySet /\ fw = PolicyFw
    \/ mon.pol.table = t /\ mon.pol.chain = ch
    \/ cs[1].table = t /\ cs[1].chain = ch
    \/ t = FILTER /\ ch = INPUT

PolicyInit ==
    /\ PureFrozen
    /\ \E h \in {x \in Handles : x.has_check} :
          handle = [c \in Callers |-> IF c = 1 THEN h ELSE NoHandle]
    /\ fw = PolicyFw
    /\ open = {}
    /\ lock = {}
    /\ cs = [c \in Callers |-> Idle]
    /\ mon = MonOf(fw)
    /\ budget = [calls |-> 0, faults |-> MaxFaults]

PolicyCall ==
    /\ \E t \in PolicyTables, ch \in PolicyChains :
          /\ Focus(t, ch)
          /\ \/ CallPolicy(1, "get_policy", t, ch, <<>>)
             \/ \E p \in {ACCEPT, DROP} : CallPolicy(1, "set_policy", t, ch, p)
    /\ UNCHANGED <<budget, pureVars>>

PolicyNext ==
    \/ PolicyCall
    \/ \E c \in {1} :
          \/ CreateLockFile(c) /\ UNCHANGED pureVars
          \/ CreateFails(c) /\ UNCHANGED pureVars
          \/ FlockTry(c) /\ UNCHANGED pureVars
          \/ FlockFails(c) /\ UNCHANGED pureVars
          \/ Spawn(c) /\ UNCHANGED pureVars
          \/ SpawnFails(c) /\ UNCHANGED pureVars
          \/ ChildExit(c) /\ UNCHANGED pureVars
          \/ ChildFails(c) /\ UNCHANGED pureVars
          \/ ChildKilled(c) /\ UNCHANGED pureVars
          \/ DropLock(c) /\ UNCHANGED pureVars
          \/ RunReturn(c) /\ UNCHANGED pureVars
          \/ OpContinue(c) /\ UNCHANGED pureVars

PolicySpec == PolicyInit /\ [][PolicyNext]_vars

---------------------------------------------------------------------------
(* ChainSpec: one caller creating, listing, probing and deleting chains of *)
(* table nat, in any order and number                                      *)

\* How many rules the caller puts in a chain
MaxChainRules == 1

ChainCalls ==
    {<<op, n, <<>>>> : op \in {"new_chain", "delete_chain", "chain_exists"}, n \in UserNames}
    \cup {<<"chain_exists", OUTPUT, <<>>>>, <<"list_chains", <<>>, <<>>>>,
          <<"append", CH1, R_a>>, <<"flush_chain", CH1, <<>>>>}

ChainInit ==
    /\ PureFrozen
    /\ \E h \in Handles : handle = [c \in Callers |-> IF c = 1 THEN h ELSE NoHandle]
    /\ \E extra \in {<<>>, <<UserChain(CH1, <<>>)>>} :
          fw = FwWith(Builtins(BUILTIN_CHAINS_NAT) \o extra)
    /\ open = {}
    /\ lock = {}
    /\ cs = [c \in Callers |-> Idle]
    /\ mon = MonOf(fw)
    /\ budget = [calls |-> 0, faults |-> MaxFaults]

ChainCall ==
    /\ \E k \in ChainCalls :
          /\ k[1] \in Adding => Len(ChainRules(fw, NAT, k[2])) < MaxChainRules
          /\ Call(1, k[1], NAT, k[2], k[3], 0)
    /\ UNCHANGED <<budget, pureVars>>

ChainNext ==
    \/ ChainCall
    \/ \E c \in {1} :
          \/ CreateLockFile(c) /\ UNCHANGED pureVars
          \/ CreateFails(c) /\ UNCHANGED pureVars
          \/ FlockTry(c) /\ UNCHANGED pureVars
          \/ FlockFails(c) /\ UNCHANGED pureVars
          \/ Spawn(c) /\ UNCHANGED pureVars
          \/ SpawnFails(c) /\ UNCHANGED pureVars
          \/ ChildExit(c) /\ UNCHANGED pureVars
          \/ ChildFails(c) /\ UNCHANGED pureVars
          \/ ChildKilled(c) /\ UNCHANGED pureVars
          \/ DropLock(c) /\ UNCHANGED pureVars
          \/ RunReturn(c) /\ UNCHANGED pureVars
          \/ OpContinue(c) /\ UNCHANGED pureVars

ChainSpec == ChainInit /\ [][ChainNext]_vars

---------------------------------------------------------------------------
(* VersionSpec: new() on every version output within the bounds            *)

VersionInit ==
    /\ ver \in VersionOutputs
    /\ detected = NotCalled
    /\ SplitFrozen
    /\ OpsFrozen

VersionNew ==
    /\ detected.tag = "none"
    /\ detected' = new(ver)
    /\ UNCHANGED <<ver, opVars, text, tokens>>

VersionNext == VersionNew

VersionSpec == VersionInit /\ [][VersionNext]_vars

---------------------------------------------------------------------------
(* SplitSpec: split_quoted on every rule string within the bounds          *)

MaxTextLen == 5

\* The characters of the rule strings: two letters, the space and the two
\* quote characters
TextChars == {"a", "b", SP, DQ, SQ}

Texts == UNION {[1..n -> TextChars] : n \in 0..MaxTextLen}

SplitInit ==
    /\ text \in Texts
    /\ tokens = NotSplit
    /\ VersionFrozen
    /\ OpsFrozen

SplitCall ==
    /\ ~tokens.called
    /\ tokens' = [called |-> TRUE, out |-> split_quoted(text)]
    /\ UNCHANGED <<ver, detected, opVars, text>>

SplitNext == SplitCall

SplitSpec == SplitInit /\ [][SplitNext]_vars

---------------------------------------------------------------------------
(* Claims about run() under concurrent callers (Spec)                      *)

NoWait(c) == ~handle[c].has_wait
ChildAlive(c) == cs[c].pc = "child"
EndsWithWait(args) == Len(args) > 0 /\ args[Len(args)] = WAIT

\* C1: with two or more concurrent callers whose handles have has_wait =
\* false, no two child processes are alive at once; a caller's child is alive
\* only while that caller holds the exclusive lock; at most one caller holds
\* the lock.
C1_MutualExclusion ==
    /\ Cardinality(lock) <= 1
    /\ \A c \in Callers : NoWait(c) /\ ChildAlive(c) => c \in lock
    /\ \A c, d \in Callers :
          c # d /\ NoWait(c) /\ NoWait(d) => ~(ChildAlive(c) /\ ChildAlive(d))

\* A caller's child runs under the lock while the other caller, also without
\* --wait, has been refused the lock and is retrying.
C1_Witness ==
    \E c, d \in Callers :
        /\ c # d /\ NoWait(c) /\ NoWait(d)
        /\ ChildAlive(c) /\ c \in lock
        /\ cs[d].pc = "flock" /\ cs[d].flocked = "EAGAIN"

\* C2: for a handle with has_wait = false the lock is held as long as the
\* child is alive, and whenever run has returned (with the output, with
\* BadExitStatus, with an Io error or with a Nix error) the caller holds no
\* lock and no open lock file.
C2_LockReleasedOnReturn ==
    \A c \in Callers :
        NoWait(c) =>
            /\ ChildAlive(c) => c \in lock
            /\ cs[c].pc \in {"ret", "idle", "run"} => c \notin lock /\ c \notin open

\* run has returned the Io error of a failed spawn after it had taken the
\* lock, while the other caller has returned from a run whose child exited.
C2_Witness ==
    \E c, d \in Callers :
        /\ NoWait(c) /\ cs[c].pc = "ret" /\ cs[c].end = "spawn_failed"
        /\ cs[c].flocked = "Ok" /\ cs[c].rr = ErrIo
        /\ NoWait(d) /\ cs[d].pc = "ret" /\ cs[d].end = "exited"

\* C3: every call of run uses exactly one locking strategy, fixed by
\* has_wait: with has_wait the process gets the caller's arguments followed
\* by "--wait" and the lock file is never opened or locked; without it the
\* lock is taken before the process is spawned and "--wait" is not appended.
C3_OneLockingStrategy ==
    \A c \in Callers :
        /\ handle[c].has_wait => c \notin open /\ c \notin lock /\ cs[c].flocked = ""
        /\ cs[c].spawns > 0 =>
              /\ cs[c].cmdline = IF handle[c].has_wait THEN cs[c].argv \o <<WAIT>>
                                 ELSE cs[c].argv
              /\ EndsWithWait(cs[c].cmdline) = handle[c].has_wait
              /\ (cs[c].flocked = "Ok") = ~handle[c].has_wait
              /\ (cs[c].flocked = "Ok") # EndsWithWait(cs[c].cmdline)
        /\ ChildAlive(c) /\ NoWait(c) => c \in lock

\* The children of both strategies alive at once: one given "--wait" and no
\* lock, one under the lock and without "--wait".
C3_Witness ==
    \E c, d \in Callers :
        /\ handle[c].has_wait /\ ChildAlive(c) /\ EndsWithWait(cs[c].cmdline)
        /\ NoWait(d) /\ ChildAlive(d) /\ d \in lock /\ ~EndsWithWait(cs[d].cmdline)

\* C4: run spawns at most one child per call; exit code 0 or no exit code
\* gives Ok(output); a nonzero exit code n gives Err(BadExitStatus(n)); a
\* failure to spawn gives an Io error at once, with no child spawned.
C4_RunOutcome ==
    \A c \in Callers :
        /\ cs[c].spawns <= 1
        /\ cs[c].pc = "ret" /\ cs[c].end = "exited" =>
              /\ cs[c].spawns = 1
              /\ cs[c].out.code \in {0, NoCode} =>
                    cs[c].rr.tag = "Ok" /\ cs[c].rr.out = cs[c].out.stdout
              /\ cs[c].out.code \notin {0, NoCode} =>
                    /\ cs[c].rr.tag = "Err" /\ cs[c].rr.kind = "BadExitStatus"
                    /\ cs[c].rr.code = cs[c].out.code
        /\ cs[c].pc = "ret" /\ cs[c].end = "spawn_failed" =>
              cs[c].rr = ErrIo /\ cs[c].spawns = 0

\* One run has returned Ok for a child that a signal ended, another
\* BadExitStatus for a child that exited with a nonzero code.
C4_Witness ==
    \E c, d \in Callers :
        /\ cs[c].pc = "ret" /\ cs[c].out.code = NoCode /\ cs[c].rr.tag = "Ok"
        /\ cs[d].pc = "ret" /\ cs[d].rr.kind = "BadExitStatus" /\ cs[d].rr.code = 1

\* C5: with has_wait = false a lock attempt that would block (EAGAIN) is
\* retried and never becomes run's error; any other failure of the attempt
\* makes run return a Nix error at once with no process spawned; a process is
\* spawned only after a lock attempt has succeeded.
C5_LockRetry ==
    \A c \in Callers :
        NoWait(c) =>
            /\ cs[c].flocked = "EAGAIN" => cs[c].pc = "flock"
            /\ cs[c].rr.kind = "Nix" => cs[c].rr.msg # "EAGAIN" /\ cs[c].end = "lock_failed"
            /\ cs[c].pc = "ret" /\ cs[c].end = "lock_failed" =>
                  /\ cs[c].rr.kind = "Nix" /\ cs[c].spawns = 0
                  /\ cs[c].flocked \notin {"Ok", "EAGAIN"}
            /\ cs[c].spawns > 0 => cs[c].flocked = "Ok"

\* A caller that was refused the lock and retried now runs its child under
\* the lock, after the other caller's run has returned.
C5_Witness ==
    \E c, d \in Callers :
        /\ NoWait(c) /\ cs[c].retried /\ ChildAlive(c) /\ c \in lock
        /\ NoWait(d) /\ cs[d].pc = "ret" /\ cs[d].end = "exited"

---------------------------------------------------------------------------
(* Claims about new() (VersionSpec)                                        *)

\* The version new() parsed, as numbers
Parsed == <<ParseI32(ver.major), ParseI32(ver.minor), ParseI32(ver.patch)>>

\* a > b for versions as ordered triples: major first, then minor, then patch
VersionGreater(a, b) ==
    \E i \in 1..3 : a[i] > b[i] /\ \A j \in 1..(i - 1) : a[j] = b[j]

Flags(has_check, has_wait) ==
    detected.has_check = has_check /\ detected.has_wait = has_wait

\* C6: for every parsed version new() sets has_check exactly when the
\* version is greater than 1.4.10 and has_wait exactly when it is greater
\* than 1.4.19, as ordered triples; 1.4.10 gives (false, false), 1.4.11 and
\* 1.4.19 give (true, false), 1.4.20 and 2.0.0 give (true, true).
C6_VersionThresholds ==
    detected.tag = "Ok" =>
        /\ detected.has_check = VersionGreater(Parsed, <<1, 4, 10>>)
        /\ detected.has_wait = VersionGreater(Parsed, <<1, 4, 19>>)
        /\ Parsed = <<1, 4, 10>> => Flags(FALSE, FALSE)
        /\ Parsed = <<1, 4, 11>> => Flags(TRUE, FALSE)
        /\ Parsed = <<1, 4, 19>> => Flags(TRUE, FALSE)
        /\ Parsed = <<1, 4, 20>> => Flags(TRUE, TRUE)
        /\ Parsed = <<2, 0, 0>> => Flags(TRUE, TRUE)

\* new() has returned a handle for 1.5.0: a greater minor version with a
\* smaller patch number, and both flags set.
C6_Witness ==
    detected.tag = "Ok" /\ Parsed = <<1, 5, 0>> /\ Flags(TRUE, TRUE)

\* C19 (as amended): for a version with major component 1, has_check is
\* set exactly when the minor component is greater than 4, or the minor
\* component is 4 and the patch component is greater than 10; has_wait is
\* set exactly when the minor component is greater than 4, or the minor
\* component is 4 and the patch component is greater than 19; any greater
\* major version sets both flags.
C19_MinorThenPatch ==
    detected.tag = "Ok" =>
        LET minor == Parsed[2]
            patch == Parsed[3]
        IN  /\ Parsed[1] = 1 =>
                /\ detected.has_check <=> (minor > 4 \/ (minor = 4 /\ patch > 10))
                /\ detected.has_wait <=> (minor > 4 \/ (minor = 4 /\ patch > 19))
            /\ Parsed[1] > 1 => Flags(TRUE, TRUE)

\* new() has returned a handle for 1.4.20: the minor component is not
\* greater than the threshold's, and both flags are set.
C19_Witness ==
    detected.tag = "Ok" /\ Parsed = <<1, 4, 20>> /\ Flags(TRUE, TRUE)

\* C19: for a version with major component 1, a capability flag is set only
\* when both the minor and the patch component are strictly greater than
\* the threshold's: has_check requires minor > 4 and patch > 10, has_wait
\* requires minor > 4 and patch > 19; any greater major version sets both
\* flags.
C19_Original ==
    detected.tag = "Ok" =>
        /\ Parsed[1] = 1 =>
            /\ detected.has_check => (Parsed[2] > 4 /\ Parsed[3] > 10)
            /\ detected.has_wait => (Parsed[2] > 4 /\ Parsed[3] > 19)
        /\ Parsed[1] > 1 => Flags(TRUE, TRUE)

---------------------------------------------------------------------------
(* Claims about exists() (SeqSpec)                                         *)

\* run() got as far as building the command.
Commanded(e) == e.end \notin {"create_failed", "lock_failed"}

\* The call of operation op by caller 1 has returned.
Done(op) == cs[1].pc = "idle" /\ cs[1].op = op

WithWait(h, args) == IF h.has_wait THEN args \o <<WAIT>> ELSE args

\* The arguments of a check, append, delete or insert process for the
\* call's table, chain and rule
RuleCommand(r, flag, more) ==
    WithWait(handle[1], <<Flag("t"), r.table, Flag(flag), r.chain>> \o more
                        \o split_quoted(r.rule))

\* C7: for a handle with has_check = true, exists runs one check invocation
\* and returns Ok(true) when it exits with code 0, Ok(false) when it exits
\* with code 1 or 2, and the error for every other nonzero exit code
\* (BadExitStatus) and for spawn and lock failures.
C7_ExistsCheck ==
    Done("exists") /\ handle[1].has_check =>
        LET r == cs[1]
            e == r.log[1]
        IN  /\ Len(r.log) = 1
            /\ Commanded(e) => e.cmdline = RuleCommand(r, "C", <<>>)
            /\ e.end = "exited" /\ e.code = 0 => r.res = Ok(TRUE, <<>>)
            /\ e.end = "exited" /\ e.code \in {1, 2} => r.res = Ok(FALSE, <<>>)
            /\ e.end = "exited" /\ e.code = NoCode => r.res = Ok(TRUE, <<>>)
            /\ e.end = "exited" /\ e.code \notin {0, 1, 2, NoCode} =>
                  r.res = BadExitStatus(e.code)
            /\ e.end \in {"spawn_failed", "create_failed"} => r.res = ErrIo
            /\ e.end = "lock_failed" => r.res.tag = "Err" /\ r.res.kind = "Nix"

\* exists has returned Ok(false) for a check that exited with code 2, on a
\* chain that holds the rule.
C7_Witness ==
    /\ Done("exists") /\ handle[1].has_check
    /\ cs[1].log[1].code = 2 /\ cs[1].res = Ok(FALSE, <<>>)
    /\ Count(ChainRules(fw, NAT, CH1), split_quoted(cs[1].rule)) = 1

\* The rule string is spelled as the tool lists the rule.
Listed(rule) == ListRule(split_quoted(rule)) = rule

RECURSIVE ListOthers(_, _)
\* The rule lines of the listing that belong to the chains other than chain
ListOthers(tbl, chain) ==
    IF Len(tbl) = 0 THEN <<>>
    ELSE (IF tbl[1].name = chain THEN <<>> ELSE ListRules(tbl[1].name, tbl[1].rules))
         \o ListOthers(Tail(tbl), chain)

\* No line of another chain holds the text "-A chain rule".
NoDecoy(r) ==
    ~Contains(ListOthers(fw[r.table], r.chain), Flag("A") \o <<SP>> \o r.chain \o <<SP>> \o r.rule)

\* exists has returned a boolean for the rule the observer follows, from
\* processes that ran the tool to its end.
ExistsAnswered(phase) ==
    /\ Done("exists") /\ cs[1].res.tag = "Ok" /\ ~cs[1].upset
    /\ mon.phase = phase /\ mon.rule = cs[1].rule

\* C8 as amended: on a freshly created chain, with no concurrent
\* modification and every process running the tool to its end, exists
\* returns true after the rule was appended, inserted or executed as
\* "-A chain rule", when has_check is true or the rule string is spelled as
\* the tool lists it; it returns false after the rule was then deleted or the
\* chain flushed, when has_check is true or no line of another chain holds
\* the text "-A chain rule".
C8_ExistsAfterAppendDelete ==
    /\ ExistsAnswered("added") /\ (handle[1].has_check \/ Listed(cs[1].rule))
          => cs[1].res.b
    /\ ExistsAnswered("removed") /\ (handle[1].has_check \/ NoDecoy(cs[1]))
          => ~cs[1].res.b

\* With the text-scan fallback, exists has returned false for a
\* double-quoted rule that was appended to the fresh chain and deleted.
C8_Witness ==
    /\ ExistsAnswered("removed") /\ ~handle[1].has_check
    /\ cs[1].rule = R_dq /\ ~cs[1].res.b

\* C8 as claimed: exists returns true after the append and false after the
\* delete or flush, for both kinds of handle and every rule string.
C8_Original ==
    /\ ExistsAnswered("added") => cs[1].res.b
    /\ ExistsAnswered("removed") => ~cs[1].res.b

---------------------------------------------------------------------------
(* Claims about the composite operations (UniqueSpec)                      *)

IsCheckRun(r, e) ==
    e.cmdline = IF handle[1].has_check THEN RuleCommand(r, "C", <<>>)
                ELSE WithWait(handle[1], <<Flag("t"), r.table, Flag("S")>>)

\* C9: insert_unique and append_unique first check existence; when the
\* check reports the rule present they return Other("the rule exists in the
\* table/chain"), invoke no insert or append process and leave the chain's
\* rules unchanged; when it reports the rule absent they make exactly one
\* insert (at the given position) or append.
C9_UniqueChecksFirst ==
    \A op \in {"insert_unique", "append_unique"} :
        Done(op) =>
            LET r == cs[1]
                add == IF op = "insert_unique"
                       THEN RuleCommand(r, "I", <<to_string(r.pos)>>)
                       ELSE RuleCommand(r, "A", <<>>)
            IN  /\ Len(r.log) >= 1
                /\ Commanded(r.log[1]) => IsCheckRun(r, r.log[1])
                /\ r.sub.tag = "Ok" /\ r.sub.b =>
                      /\ r.res = Other("the rule exists in the table/chain")
                      /\ Len(r.log) = 1
                      /\ ChainRules(fw, r.table, r.chain) = r.rules0
                /\ r.sub.tag = "Ok" /\ ~r.sub.b =>
                      /\ Len(r.log) = 2
                      /\ Commanded(r.log[2]) => r.log[2].cmdline = add

\* insert_unique at position 2 has found the rule present and returned the
\* domain error.
C9_Witness ==
    /\ Done("insert_unique") /\ cs[1].pos = 2
    /\ cs[1].sub = Ok(TRUE, <<>>) /\ cs[1].res = Other(RuleExistsMsg)
    /\ Count(cs[1].rules0, split_quoted(cs[1].rule)) = 1

Max(a, b) == IF a >= b THEN a ELSE b

\* append_replace has returned Ok from processes that ran the tool to its
\* end.
Replaced == Done("append_replace") /\ cs[1].res.tag = "Ok" /\ ~cs[1].upset

Instances(rules) == Count(rules, split_quoted(cs[1].rule))

\* C10 as amended: with no concurrent modification and every process
\* running the tool to its end, a successful append_replace of a rule, on a
\* handle with has_check = true or with the rule string spelled as the tool
\* lists it, leaves the rule last in the chain and in as many instances as
\* before, or in one if there was none; so two calls in succession leave
\* exactly one instance when the chain held at most one before.
C10_AppendReplace ==
    Replaced /\ (handle[1].has_check \/ Listed(cs[1].rule)) =>
        LET now == ChainRules(fw, NAT, CH1)
        IN  /\ Len(now) > 0 /\ now[Len(now)] = split_quoted(cs[1].rule)
            /\ Instances(now) = Max(1, Instances(cs[1].rules0))
            /\ mon.streak = 2 /\ mon.count0 <= 1 => Instances(now) = 1

\* A second append_replace in succession has returned, and the chain holds
\* one instance of the rule.
C10_Witness ==
    /\ Replaced /\ mon.streak = 2 /\ mon.count0 = 1
    /\ Instances(cs[1].rules0) = 1
    /\ Instances(ChainRules(fw, NAT, CH1)) = 1

\* C10 as claimed: every successful append_replace leaves exactly one
\* instance of the rule, placed last, for every initial content.
C10_Original ==
    Replaced =>
        LET now == ChainRules(fw, NAT, CH1)
        IN  /\ Len(now) > 0 /\ now[Len(now)] = split_quoted(cs[1].rule)
            /\ Instances(now) = 1

---------------------------------------------------------------------------
(* Claims about delete_all (UniqueSpec)                                    *)

\* The rules of a chain other than the instances of rule, in their order
Others(rules, rule) == SelectSeq(rules, LAMBDA x : x # rule)

\* The text the fallback of exists searches the listing for
ScanText(r) == Flag("A") \o <<SP>> \o r.chain \o <<SP>> \o r.rule

\* The listing of the call's table holds the text "-A chain rule" in the
\* lines of the chain's instances of the rule and in no other line.
ScanExact(r) ==
    \A i \in 1..Len(fw[r.table]) :
        LET ch == fw[r.table][i]
        IN  \A j \in 1..Len(ch.rules) :
                Contains(ListRules(ch.name, <<ch.rules[j]>>), ScanText(r))
                    <=> (ch.name = r.chain /\ ch.rules[j] = split_quoted(r.rule))

\* delete_all has returned Ok(true) from processes that ran the tool to its
\* end.
DeletedAll == Done("delete_all") /\ cs[1].res = Ok(TRUE, <<>>) /\ ~cs[1].upset

\* The runs of the call were, in turn, a check and a delete, k deletes and
\* k + 1 checks in all.
ChecksAndDeletes(r, k) ==
    /\ Len(r.log) = 2 * k + 1
    /\ \A i \in 1..Len(r.log) :
          IF i % 2 = 1 THEN IsCheckRun(r, r.log[i])
          ELSE r.log[i].cmdline = RuleCommand(r, "D", <<>>)

\* C11 as amended: delete_all returns Ok(true) only after an existence check
\* has returned false.  With no concurrent modification and every process
\* running the tool to its end, on a handle with has_check = true, or with
\* has_check = false when the table's listing holds the text "-A chain rule"
\* in exactly the lines of the chain's instances of the rule: on return the
\* chain holds no instance of the rule, every other rule is still there in
\* its order, and for a chain that held k instances k delete invocations
\* and k + 1 existence checks were made.
C11_DeleteAll ==
    /\ Done("delete_all") /\ cs[1].res.tag = "Ok" =>
          /\ cs[1].res = Ok(TRUE, <<>>)
          /\ cs[1].sub = Ok(FALSE, <<>>)
          /\ Len(cs[1].log) % 2 = 1
    /\ DeletedAll /\ (handle[1].has_check \/ ScanExact(cs[1])) =>
          LET r == cs[1]
              now == ChainRules(fw, r.table, r.chain)
          IN  /\ Instances(now) = 0
              /\ now = Others(r.rules0, split_quoted(r.rule))
              /\ ChecksAndDeletes(r, Instances(r.rules0))

\* With the text-scan fallback, delete_all has removed both instances of a
\* double-quoted rule with two deletes and three checks.
C11_Witness ==
    /\ DeletedAll /\ ~handle[1].has_check /\ cs[1].rule = R_dq
    /\ Instances(cs[1].rules0) = 2 /\ Len(cs[1].log) = 5
    /\ Instances(ChainRules(fw, NAT, CH1)) = 0

\* C11 as claimed: for both kinds of handle and every rule string, on return
\* the chain holds no instance, the other rules are kept in order, and k
\* deletes and k + 1 checks were made.
C11_Original ==
    DeletedAll =>
        LET r == cs[1]
            now == ChainRules(fw, r.table, r.chain)
        IN  /\ r.sub = Ok(FALSE, <<>>)
            /\ Instances(now) = 0
            /\ now = Others(r.rules0, split_quoted(r.rule))
            /\ ChecksAndDeletes(r, Instances(r.rules0))

---------------------------------------------------------------------------
(* Claims about the failures of the composite operations (UniqueSpec)      *)

Composites == {"insert_unique", "append_unique", "append_replace", "delete_all"}

\* The i-th run of a composite call is an existence check: the first run,
\* and every other run of delete_all.
IsExistsStep(r, i) == i = 1 \/ (r.op = "delete_all" /\ i % 2 = 1)

\* The i-th run of the call made its step fail: the lock file, the lock or
\* the process could not be had, or the process exited with a nonzero code
\* that the step does not read as an answer.
StepFailed(r, i) ==
    LET e == r.log[i]
    IN  \/ e.end # "exited"
        \/ /\ e.code \notin {0, NoCode}
           /\ ~(IsExistsStep(r, i) /\ handle[1].has_check /\ e.code \in {1, 2})

\* res is the error of the run e
ErrorOf(e, res) ==
    IF e.end \in {"create_failed", "spawn_failed"} THEN res = ErrIo
    ELSE IF e.end = "lock_failed" THEN res.tag = "Err" /\ res.kind = "Nix"
    ELSE res = BadExitStatus(e.code)

\* C20: in insert_unique, append_unique, append_replace and delete_all the
\* failure of any step is returned to the caller at once and no later step
\* runs: an error of the existence check means no insert, append or delete
\* is invoked and the chain is unchanged by the call; a failed delete in
\* append_replace means no append is invoked; a failed delete in delete_all
\* stops the loop; and no step is retried (each run starts at most one
\* process, and no run repeats the command of the run before it).
C20_FailFast ==
    cs[1].op \in Composites =>
        LET r == cs[1]
            n == Len(r.log)
        IN  /\ \A i \in 1..n :
                  StepFailed(r, i) =>
                      /\ i = n
                      /\ r.pc \in {"ret", "idle"}
                      /\ r.pc = "idle" => ErrorOf(r.log[i], r.res)
                      /\ i = 1 => ChainRules(fw, r.table, r.chain) = r.rules0
                      /\ r.op = "append_replace" /\ i > 1 /\ Commanded(r.log[i]) =>
                            r.log[i].cmdline = RuleCommand(r, "D", <<>>)
                                \/ (i = n /\ r.log[i].cmdline = RuleCommand(r, "A", <<>>))
            /\ r.spawns <= 1
            /\ \A i \in 1..(n - 1) :
                  Commanded(r.log[i]) /\ Commanded(r.log[i + 1]) =>
                      r.log[i].cmdline # r.log[i + 1].cmdline
            /\ r.op # "delete_all" => n <= 3
            /\ r.op \in {"insert_unique", "append_unique"} => n <= 2

\* append_replace has returned the error of its delete, which exited with
\* code 1 after the existence check had answered true: two runs, no append.
C20_Witness ==
    /\ Done("append_replace") /\ Len(cs[1].log) = 2
    /\ cs[1].sub = Ok(TRUE, <<>>)
    /\ cs[1].log[2].cmdline = RuleCommand(cs[1], "D", <<>>)
    /\ cs[1].log[2].end = "exited" /\ cs[1].log[2].code \in {1, 2, 4}
    /\ cs[1].res = BadExitStatus(cs[1].log[2].code)

---------------------------------------------------------------------------
(* Claims about append_replace beside a concurrent reader (ReplaceSpec)    *)

\* Caller 1 is inside append_replace between its delete and its append: the
\* existence check answered true, the delete process exited with code 0,
\* and the append process has not yet acted.
BetweenDeleteAndAppend ==
    LET r == cs[1]
    IN  /\ r.op = "append_replace" /\ r.step = "append"
        /\ r.pc \in {"run", "flock", "spawn", "child"}
        /\ r.sub = Ok(TRUE, <<>>) /\ ~r.upset
        /\ Len(r.log) = 2
        /\ r.log[2].cmdline = RuleCommand(r, "D", <<>>)
        /\ r.log[2].end = "exited" /\ r.log[2].code = 0

\* C16: append_replace is not atomic: between its delete and its append the
\* chain lacks the instance the delete removed (the rule is absent when the
\* chain held it once), a concurrent exists whose check runs then answers
\* false, and with has_wait = false the caller holds neither the lock nor
\* the lock file between the two invocations, the lock being taken and
\* released by each invocation.
C16_NonAtomic ==
    /\ [](BetweenDeleteAndAppend =>
            /\ Instances(ChainRules(fw, NAT, CH1)) = Instances(cs[1].rules0) - 1
            /\ cs[1].pc \in {"run", "flock"} => 1 \notin lock
            /\ cs[1].pc = "run" => 1 \notin open)
    /\ [][/\ BetweenDeleteAndAppend /\ Instances(cs[1].rules0) = 1
          /\ cs[2].op = "exists" /\ cs[2].pc = "child"
          /\ cs'[2].pc = "exited" /\ ~cs'[2].upset
          => StepResult(handle[2], "exists", StatusResult(cs'[2].out),
                        cs[2].chain, cs[2].rule) = Ok(FALSE, <<>>)]_vars

\* Both handles lock the file themselves (has_wait = false); caller 1 is
\* between the delete and the append of its only append_replace, on a chain
\* that held the rule once, and caller 2's only exists has returned
\* Ok(false).
C16_Witness ==
    /\ BetweenDeleteAndAppend /\ Instances(cs[1].rules0) = 1
    /\ ~handle[1].has_wait /\ ~handle[2].has_wait
    /\ budget.calls = MaxReplaceCalls - 2
    /\ cs[2].op = "exists" /\ cs[2].pc = "idle" /\ ~cs[2].upset
    /\ cs[2].res = Ok(FALSE, <<>>)
    /\ Instances(ChainRules(fw, NAT, CH1)) = 0

---------------------------------------------------------------------------
(* Claims about the loop of delete_all (DeleteAllSpec)                     *)

\* Caller 1's delete_all goes on from a run that has returned.
LoopStep ==
    cs[1].op = "delete_all" /\ cs[1].pc = "ret" /\ cs'[1] # cs[1]

\* Caller 1 goes on with the sub-operation step.
GoesOnWith(step) == cs'[1].pc = "run" /\ cs'[1].step = step

\* C17: delete_all terminates when every successful delete removes an
\* instance and nothing re-adds the rule for ever: on a chain with finitely
\* many instances, beside a caller that appends the rule finitely often, it
\* eventually returns.  Its only loop condition is the result of exists:
\* after a check that answered true it goes on with a delete, after a
\* delete that succeeded it goes on with another check, and it returns
\* Ok(true) only after a check that answered false, so it does not return
\* as long as the checks answer true and the deletes succeed.
C17_DeleteAllLoop ==
    /\ (cs[1].op = "delete_all") ~> (cs[1].op = "delete_all" /\ cs[1].pc = "idle")
    /\ [][LoopStep =>
            LET r == cs[1]
                answer == cs'[1].sub
            IN  /\ r.step = "exists" /\ answer = Ok(TRUE, <<>>) => GoesOnWith("delete")
                /\ r.step = "delete" /\ r.rr.tag = "Ok" => GoesOnWith("exists")
                /\ r.step = "exists" /\ answer = Ok(FALSE, <<>>) =>
                      cs'[1].pc = "idle" /\ cs'[1].res = Ok(TRUE, <<>>)
                /\ cs'[1].pc = "idle" /\ cs'[1].res.tag = "Ok" =>
                      r.step = "exists" /\ answer = Ok(FALSE, <<>>)]_vars

\* delete_all has returned Ok(true) after three checks and two deletes on a
\* chain that held the rule once when it was called: the second delete
\* removed the instance the other caller appended meanwhile.
C17_Witness ==
    /\ Done("delete_all") /\ cs[1].res = Ok(TRUE, <<>>) /\ ~cs[1].upset
    /\ Instances(cs[1].rules0) = 1 /\ Len(cs[1].log) = 5
    /\ cs[2].op = "append" /\ cs[2].res = OkUnit
    /\ Instances(ChainRules(fw, NAT, CH1)) = 0

---------------------------------------------------------------------------
(* Claims about the try-lock loop under contention (LockSpec)              *)

\* Caller c is inside run().
InRun(c) == cs[c].pc \in {"run", "flock", "spawn", "child", "exited", "status"}

\* run() has returned to caller c's operation, or the operation to c.
OutOfRun(c) == cs[c].pc \in {"ret", "idle"}

\* C21 (as amended): with has_wait = false and two concurrent callers whose
\* processes eventually exit, under weak fairness on each caller's steps, a
\* caller that enters run eventually acquires the lock, runs its process
\* and returns provided the other caller enters run only finitely often.
C21_ReturnsUnlessContended ==
    \A c \in Callers :
        \/ []<>(\E d \in Callers \ {c} : cs[d].pc = "run")
        \/ InRun(c) ~> OutOfRun(c)

\* Caller 2 has acquired the lock after a failed attempt (would block)
\* while caller 1 held it, and run its process to the result Ok.
C21_Witness ==
    /\ cs[2].retried /\ cs[2].flocked = "Ok"
    /\ cs[2].pc = "ret" /\ cs[2].rr.tag = "Ok"
    /\ cs[1].pc = "idle" /\ cs[1].op # "none"

\* C21: with has_wait = false and finitely many concurrent callers, each of
\* whose external processes eventually exits, every caller that enters run
\* eventually acquires the lock, runs its process and returns (no caller
\* stays in the try-lock retry loop forever), assuming only weak fairness on
\* each caller's steps.
C21_Original ==
    \A c \in Callers : InRun(c) ~> OutOfRun(c)

---------------------------------------------------------------------------
(* Claims about the two code paths of exists (ExistsSpec)                  *)

\* What exists returns for the call r on a handle with has_check = true, on
\* the tables as they now are: the native check.
NativeAnswer(r) ==
    LET h == [has_check |-> TRUE, has_wait |-> handle[1].has_wait]
        t == ToolExec(CommandLine(h, StepArgv(h, "exists", r.table, r.chain,
                                              r.rule, 0, <<>>)), fw)
    IN  CheckResult(StatusResult([code |-> t.code, stdout |-> t.out]))

\* exists has returned a boolean from a process that ran the tool to its end.
Answered == Done("exists") /\ cs[1].res.tag = "Ok" /\ ~cs[1].upset

\* The chain of the call holds the rule of the call.
Present(r) == Count(ChainRules(fw, r.table, r.chain), split_quoted(r.rule)) > 0

\* C22 (as amended): exists on a handle with has_check = true returns true
\* exactly when the chain contains the rule; exists on a handle with
\* has_check = false returns the same boolean whenever the table dump holds
\* the text "-A chain rule" in the lines of the chain's instances of the
\* rule and in no other line.
C22_PathsAgree ==
    Answered =>
        LET r == cs[1]
        IN  /\ handle[1].has_check => r.res.b = Present(r)
            /\ ~handle[1].has_check /\ ScanExact(r) =>
                  /\ r.res = NativeAnswer(r)
                  /\ r.res.b = Present(r)

\* The fallback has answered true for the rule "a b", spelled as the dump
\* prints it, on a chain that holds it, and so does the native check.
C22_Witness ==
    /\ Answered /\ ~handle[1].has_check /\ cs[1].rule = R_dq
    /\ ScanExact(cs[1]) /\ Present(cs[1])
    /\ cs[1].res = Ok(TRUE, <<>>) /\ NativeAnswer(cs[1]) = Ok(TRUE, <<>>)

\* C22: the two code paths of exists agree: for every table content, chain
\* and rule, exists on a handle with has_check = false returns the same
\* boolean as exists on a handle with has_check = true, i.e. true exactly
\* when the chain contains that rule; in particular the fallback does not
\* report a rule present when it is only a textual prefix or substring of
\* another rule in the chain, nor when the match lies in another chain's
\* line.
C22_Original ==
    Answered =>
        /\ cs[1].res.b = Present(cs[1])
        /\ ~handle[1].has_check => cs[1].res = NativeAnswer(cs[1])

---------------------------------------------------------------------------
(* Claims about the unique operations under concurrency (RaceSpec)         *)

\* The instances of the rule R_a that chain CH1 holds
Held == Count(ChainRules(fw, NAT, CH1), split_quoted(R_a))

\* Caller c is in a unique operation whose check answered false, and its
\* insert or append process is running.
Adds(c) ==
    /\ cs[c].op \in {"append_unique", "insert_unique"}
    /\ cs[c].step \in {"append", "insert"} /\ cs[c].pc = "child"
    /\ cs[c].sub = Ok(FALSE, <<>>)

\* C23 (as amended): starting from a chain with no instance of a rule that
\* is only ever added through append_unique or insert_unique, with every
\* process running the tool to its end: the chain holds at most one
\* instance while only one caller has run these operations, and with
\* callers running them concurrently never more than one instance per
\* caller; an instance is added only by a call whose own check answered
\* false.
C23_OnePerCaller ==
    /\ [](Held <= Cardinality(Callers))
    /\ []((\E c \in Callers : cs[c].op = "none") => Held <= 1)
    /\ [][Held' > Held => Held' = Held + 1 /\ \E c \in Callers : Adds(c)]_vars

\* Both callers lock the file themselves (has_wait = false), each has made
\* one call, both calls have returned Ok, and the chain holds the rule
\* twice.
C23_Witness ==
    /\ Held = 2
    /\ \A c \in Callers :
          /\ ~handle[c].has_wait
          /\ cs[c].pc = "idle" /\ cs[c].op # "none" /\ cs[c].res = OkUnit
    /\ budget.calls = MaxRaceCalls - 2

\* C23: starting from a chain with no instance of a rule, if the rule is
\* only ever added through append_unique or insert_unique, then in every
\* reachable state the chain holds at most one instance of it, also when
\* several callers run these operations concurrently (with has_wait =
\* false, where each process invocation is serialized by the file lock).
C23_Original == Held <= 1

---------------------------------------------------------------------------
(* Claims about get_policy and set_policy (PolicySpec)                     *)

\* The builtin chains of each table, as sets
StaticChains(t) ==
    IF t = FILTER THEN {INPUT, FORWARD, OUTPUT}
    ELSE IF t = MANGLE THEN {PREROUTING, OUTPUT, INPUT, FORWARD, POSTROUTING}
    ELSE IF t = NAT THEN {PREROUTING, POSTROUTING, OUTPUT}
    ELSE IF t = RAW THEN {PREROUTING, OUTPUT}
    ELSE IF t = SECURITY THEN {INPUT, OUTPUT, FORWARD}
    ELSE {}

PolicyOps == {"get_policy", "set_policy"}

\* The call has made no run: no process, no lock file, no lock.
NothingInvoked(r) ==
    /\ r.log = <<>> /\ r.spawns = 0 /\ r.flocked = ""
    /\ 1 \notin open /\ 1 \notin lock

\* C12: get_policy and set_policy validate before invoking anything: for a
\* table outside {filter, nat, mangle, raw, security} they return
\* Other("given table is not supported by iptables"), and for a chain not in
\* the static builtin list of the table a domain error; in both cases no
\* process is spawned, no lock is taken and the firewall state is unchanged,
\* whether or not such a chain exists.  For every table and builtin chain of
\* the static map the validation passes and exactly one invocation is made.
C12_PolicyValidation ==
    /\ [](\A op \in PolicyOps :
            Done(op) =>
                LET r == cs[1]
                IN  /\ r.table \notin {FILTER, NAT, MANGLE, RAW, SECURITY} =>
                          /\ r.res = Other("given table is not supported by iptables")
                          /\ NothingInvoked(r)
                    /\ r.table \in Tables /\ r.chain \notin StaticChains(r.table) =>
                          /\ r.res.tag = "Err" /\ r.res.kind = "Other"
                          /\ r.res.msg # "given table is not supported by iptables"
                          /\ NothingInvoked(r)
                    /\ r.table \in Tables /\ r.chain \in StaticChains(r.table) =>
                          /\ Len(r.log) = 1 /\ r.spawns <= 1
                          /\ r.log[1].end = "exited" => r.spawns = 1)
    /\ [][cs[1].pc = "idle" /\ cs'[1].pc = "idle" =>
             fw' = fw /\ open' = open /\ lock' = lock]_vars
    /\ [][cs[1].pc = "idle" /\ cs'[1].pc # "idle" =>
             cs'[1].table \in Tables /\ cs'[1].chain \in StaticChains(cs'[1].table)]_vars

\* get_policy has been rejected for a user-defined chain that exists in the
\* table.
C12_Witness ==
    /\ Done("get_policy") /\ cs[1].table = NAT /\ cs[1].chain = CH1
    /\ ChainIndex(fw[NAT], CH1) # 0
    /\ cs[1].res = Other(NotDefaultChainGetMsg)
    /\ NothingInvoked(cs[1])

\* The lines of the listing whose first two fields are "Chain" and chain
HeaderLines(listing, chain) ==
    LET lines == Split(Trim(listing), NL)
    IN  {i \in 1..Len(lines) :
            LET f == Split(lines[i], SP)
            IN  Len(f) >= 2 /\ f[1] = <<"C", "h", "a", "i", "n">> /\ f[2] = chain}

\* The fourth field of line i of the listing
FourthField(listing, i) == Split(Split(Trim(listing), NL)[i], SP)[4]

\* C15: for every table and builtin chain of it, after a successful
\* set_policy(table, chain, p) with no concurrent modification (every
\* process running the tool to its end), get_policy(table, chain) returns
\* exactly p: get_policy finds the listing line whose first two fields are
\* "Chain" and the chain name and returns its fourth field with ")" removed,
\* and returns the domain error "could not find the default policy for table
\* and chain" when no such line exists.
C15_SetGetPolicy ==
    Done("get_policy") /\ Len(cs[1].log) = 1 /\ cs[1].log[1].end = "exited"
    /\ cs[1].log[1].code \in {0, NoCode} =>
        LET r == cs[1]
            h == HeaderLines(r.out.stdout, r.chain)
        IN  /\ h = {} => r.res = Other("could not find the default policy for table and chain")
            /\ h # {} =>
                  LET i == CHOOSE k \in h : \A m \in h : k <= m
                  IN  /\ r.res.tag = "Ok"
                      /\ r.res.out = Remove(FourthField(r.out.stdout, i), ")")
                      /\ \A k \in 1..Len(r.res.out) : r.res.out[k] # ")"
            /\ ~r.upset /\ mon.pol.table = r.table /\ mon.pol.chain = r.chain =>
                  r.res = Ok(FALSE, mon.pol.policy)

\* get_policy has returned DROP for FORWARD of mangle after set_policy had
\* set it.
C15_Witness ==
    /\ Done("get_policy") /\ ~cs[1].upset
    /\ cs[1].table = MANGLE /\ cs[1].chain = FORWARD
    /\ mon.pol = [table |-> MANGLE, chain |-> FORWARD, policy |-> DROP]
    /\ cs[1].res = Ok(FALSE, DROP)

---------------------------------------------------------------------------
(* Claims about the chains of a table (ChainSpec)                          *)

\* C13: for any sequence of new_chain and delete_chain calls on a table with
\* no concurrent modification (every process running the tool to its end),
\* list_chains(table) contains a user-defined chain name from its successful
\* new_chain until its successful delete_chain and not afterwards,
\* chain_exists(table, name) returns true in that interval and false after
\* the delete, and the builtin chains of the table are listed throughout.
C13_ChainsListed ==
    /\ Done("list_chains") /\ cs[1].res.tag = "Ok" /\ ~cs[1].upset =>
          /\ \A n \in UserNames :
                /\ mon.live[n] = "yes" => \E i \in 1..Len(cs[1].res.out) : cs[1].res.out[i] = n
                /\ mon.live[n] = "no" => \A i \in 1..Len(cs[1].res.out) : cs[1].res.out[i] # n
          /\ \A b \in {PREROUTING, POSTROUTING, OUTPUT} :
                \E i \in 1..Len(cs[1].res.out) : cs[1].res.out[i] = b
    /\ Done("chain_exists") /\ cs[1].res.tag = "Ok" /\ ~cs[1].upset
       /\ cs[1].chain \in UserNames =>
          /\ mon.live[cs[1].chain] = "yes" => cs[1].res.b
          /\ mon.live[cs[1].chain] = "no" => ~cs[1].res.b

\* list_chains has left out a chain that new_chain created and delete_chain
\* deleted, while it lists another created chain that holds a rule.
C13_Witness ==
    /\ Done("list_chains") /\ cs[1].res.tag = "Ok" /\ ~cs[1].upset
    /\ mon.live[CH2] = "no" /\ mon.live[CH1] = "yes"
    /\ ChainRules(fw, NAT, CH1) # <<>>
    /\ cs[1].res.out = <<PREROUTING, POSTROUTING, OUTPUT, CH1>>
    /\ budget.faults = 0

\* C18: chain_exists(table, chain) lists the chain with one invocation and
\* returns Ok(true) on exit code 0, Ok(false) on exit code 1, and propagates
\* every other failure as an error; exit code 2 is returned as
\* Err(BadExitStatus(2)) and not mapped to false.
C18_ChainExistsCodes ==
    Done("chain_exists") =>
        LET r == cs[1]
            e == r.log[1]
        IN  /\ Len(r.log) = 1
            /\ Commanded(e) =>
                  e.cmdline = WithWait(handle[1], <<Flag("t"), r.table, Flag("L"), r.chain>>)
            /\ e.end = "exited" /\ e.code = 0 => r.res = Ok(TRUE, <<>>)
            /\ e.end = "exited" /\ e.code = 1 => r.res = Ok(FALSE, <<>>)
            /\ e.end = "exited" /\ e.code = 2 => r.res = BadExitStatus(2)
            /\ e.end = "exited" /\ e.code \notin {0, 1, NoCode} =>
                  r.res = BadExitStatus(e.code)
            /\ e.end \in {"spawn_failed", "create_failed"} => r.res = ErrIo
            /\ e.end = "lock_failed" => r.res.tag = "Err" /\ r.res.kind = "Nix"

\* chain_exists has returned Err(BadExitStatus(2)) for a listing that exited
\* with code 2.
C18_Witness ==
    /\ Done("chain_exists") /\ cs[1].log[1].end = "exited" /\ cs[1].log[1].code = 2
    /\ cs[1].res = BadExitStatus(2)

---------------------------------------------------------------------------
(* Claims about split_quoted (SplitSpec)                                   *)

\* The end of the maximal run of non-space characters that starts at i
RunEnd(s, i) ==
    LET stops == {k \in i..Len(s) : s[k] = SP}
    IN  IF stops = {} THEN Len(s) ELSE (CHOOSE k \in stops : \A m \in stops : k <= m) - 1

\* The position of the next quote character equal to the one at i (0: none)
Closing(s, i) ==
    LET same == {k \in (i + 1)..Len(s) : s[k] = s[i]}
    IN  IF same = {} THEN 0 ELSE CHOOSE k \in same : \A m \in same : k <= m

RECURSIVE TokensFrom(_, _)
\* The tokens of s from position i on, as the contract describes them: a span
\* between a quote character and the next equal one is a token without the
\* two quotes, every other maximal run of non-space characters is a token
\* as it stands, and spaces outside a span separate tokens.
TokensFrom(s, i) ==
    IF i > Len(s) THEN <<>>
    ELSE IF s[i] = SP THEN TokensFrom(s, i + 1)
    ELSE IF s[i] \in {DQ, SQ} /\ Closing(s, i) # 0
    THEN <<SubSeq(s, i + 1, Closing(s, i) - 1)>> \o TokensFrom(s, Closing(s, i) + 1)
    ELSE <<SubSeq(s, i, RunEnd(s, i))>> \o TokensFrom(s, RunEnd(s, i) + 1)

\* C14: for every rule string, split_quoted returns the tokens in source
\* order such that each maximal span delimited by matching single or double
\* quotes is one token with its surrounding quote characters stripped and
\* its inner spaces preserved, every other maximal run of non-space
\* characters is one token emitted unchanged, and no token contains a space
\* that was outside a quoted span.
C14_Original ==
    tokens.called => tokens.out = TokensFrom(text, 1)

=============================================================================
